---- MODULE Spec2Model ----
(***************************************************************************)
(* Authentication and authorization core of the prometheus HR backend:     *)
(* the gin middleware chain (AuthMiddleware, RBACMiddleware, the route     *)
(* table of SetupRoutes), the auth service (RegisterUser, LoginUser,       *)
(* GenerateJWT) over the users/roles tables, and the HTTP handlers that    *)
(* map the service's errors to responses.                                  *)
(*                                                                         *)
(* Time is counted in ticks of half a second, so that the truncation of a  *)
(* jwt.NumericDate to whole seconds is visible.                            *)
(***************************************************************************)
EXTENDS Integers, Sequences, FiniteSets, TLC

VARIABLES
    c,        \* the gin.Context of the request being served
    now,      \* the wall clock read by the jwt validator / the service
    users,    \* the users table, ordered by primary key
    roles,    \* the roles table, ordered by primary key
    cfg,      \* the config.Config loaded at startup
    last,     \* the last request served by AuthHandler and its response
    procs     \* the in-flight RegisterUser / SeedGodAdmin calls

vars == <<c, now, users, roles, cfg, last, procs>>

(***************************************************************************)
(* Bounds of the model                                                     *)
(***************************************************************************)
\* the clock of the gate model ranges over 0..MaxTick around every instant of interest
MaxTick == 2

(***************************************************************************)
(* Program constants                                                       *)
(***************************************************************************)
TicksPerSecond == 2
SecondsPerHour == 3600
DefaultExpirationHours == 168
StatusOK == 200
StatusCreated == 201
StatusBadRequest == 400
StatusUnauthorized == 401
StatusForbidden == 403
StatusInternalServerError == 500
MinPasswordLen == 6

\* cfg.JWTSecret, and a key the server does not hold
JWTSecret == "secret"
OtherKey == "other"

\* the role names SeedRoles creates, in seeding order
RoleNames == <<"staff", "manager", "hr", "admin", "god-admin">>

Range(f) == {f[i] : i \in DOMAIN f}

(***************************************************************************)
(* Time: time.Hour in ticks, jwt.NewNumericDate (truncation to seconds)    *)
(***************************************************************************)
HourTicks == SecondsPerHour * TicksPerSecond

\* the instant the model's clock starts at (a whole second)
Epoch == DefaultExpirationHours * HourTicks

NewNumericDate(t) == t - (t % TicksPerSecond)

(***************************************************************************)
(* Tokens.  A token string is modelled by what decoding it yields: whether *)
(* it has the three-segment shape with decodable JSON (wf), the alg of its *)
(* header, the key its signature was made with, and its claims.            *)
(***************************************************************************)
NoClaims ==
    [UserID |-> 0, Username |-> "", Email |-> "", Role |-> "",
     Subject |-> "", ExpiresAt |-> 0, IssuedAt |-> 0, NotBefore |-> 0]

\* what a string that is no JWT decodes to
Garbage == [wf |-> FALSE, alg |-> "", key |-> "", claims |-> NoClaims]

\* jwt.NewWithClaims(jwt.SigningMethodHS256, claims).SignedString(key)
SignedString(alg, claims, key) ==
    [wf |-> TRUE, alg |-> alg, key |-> key, claims |-> claims]

\* the signing methods golang-jwt registers; the HMAC ones are *jwt.SigningMethodHMAC
HMACAlgs == {"HS256", "HS384", "HS512"}
RegisteredAlgs == HMACAlgs \cup {"RS256", "ES256", "none"}

\* the Keyfunc AuthMiddleware hands to jwt.ParseWithClaims
Keyfunc(tok, jwtSecret) ==
    IF tok.alg \notin HMACAlgs
    THEN [err |-> {"ErrSignatureInvalid"}, key |-> ""]
    ELSE [err |-> {}, key |-> jwtSecret]

\* jwt.Validator.Validate on the registered claims: exp and nbf against the clock
ValidateClaims(claims, t) ==
    (IF t < claims.ExpiresAt THEN {} ELSE {"ErrTokenExpired"})
    \cup (IF t >= claims.NotBefore THEN {} ELSE {"ErrTokenNotValidYet"})

\* jwt.Parser.ParseUnverified: the segments are decoded, nothing is verified
ParseUnverified(tok, jwtSecret, t) == IF ~tok.wf THEN {"ErrTokenMalformed"} ELSE {}

\* jwt.ParseWithClaims(tokenString, claims, keyfunc): the set of sentinel errors the
\* returned error wraps (errors.Is), the empty set when the token is valid
ParseWithClaims(tok, jwtSecret, t) ==
    IF ~tok.wf THEN {"ErrTokenMalformed"}
    ELSE IF tok.alg \notin RegisteredAlgs THEN {"ErrTokenUnverifiable"}
    ELSE LET k == Keyfunc(tok, jwtSecret) IN
         IF k.err # {} THEN {"ErrTokenUnverifiable"} \cup k.err
         ELSE IF tok.key # k.key
              THEN {"ErrTokenSignatureInvalid", "ErrSignatureInvalid"}
              ELSE LET ve == ValidateClaims(tok.claims, t) IN
                   IF ve # {} THEN {"ErrTokenInvalidClaims"} \cup ve ELSE {}

(***************************************************************************)
(* gin.Context                                                             *)
(***************************************************************************)
NoKeys == [set |-> {}, userID |-> 0, username |-> "", email |-> "", role |-> ""]

NoHeader == [empty |-> TRUE, parts |-> 1, scheme |-> "", tok |-> Garbage]

\* c.Next(): the following handler of the chain runs
CNext(ctx) == [ctx EXCEPT !.index = @ + 1]

\* utils.SendErrorResponse(c, status, message); c.Abort()
AbortWith(ctx, status, message) ==
    [ctx EXCEPT !.status = status, !.message = message, !.aborted = TRUE]

\* strings.EqualFold(s, "bearer") through the simple case folding of the scheme
ToLower(s) ==
    CASE s = "Bearer" -> "bearer"
      [] s = "BEARER" -> "bearer"
      [] s = "bEaReR" -> "bearer"
      [] s = "Basic" -> "basic"
      [] OTHER -> s

\* a comparison of the scheme that is sensitive to letter case
EqualFoldExact(s, t) == s = t

EqualFold(s, t) == ToLower(s) = ToLower(t)

\* the errMsg chain reporting a token not yet valid as an expired one
AuthErrMsgNotYetAsExpired(err) ==
    IF "ErrTokenMalformed" \in err THEN "Token is malformed."
    ELSE IF "ErrTokenExpired" \in err \/ "ErrTokenNotValidYet" \in err
         THEN "Token has expired."
    ELSE IF "ErrSignatureInvalid" \in err
         THEN "Token signature is invalid or signing method is not supported."
         ELSE "Invalid token: "

\* the errMsg AuthMiddleware picks for a parse error
AuthErrMsg(err) ==
    IF "ErrTokenMalformed" \in err THEN "Token is malformed."
    ELSE IF "ErrTokenExpired" \in err THEN "Token has expired."
    ELSE IF "ErrTokenNotValidYet" \in err THEN "Token not yet valid."
    ELSE IF "ErrSignatureInvalid" \in err
         THEN "Token signature is invalid or signing method is not supported."
         ELSE "Invalid token: "

\* AuthMiddleware without the c.Abort() after a rejected token
AuthMiddlewareNoAbort(jwtSecret, ctx, t) ==
    IF ctx.header.empty
    THEN AbortWith(ctx, StatusUnauthorized, "Authorization header is required")
    ELSE IF ctx.header.parts # 2 \/ ~EqualFold(ctx.header.scheme, "bearer")
    THEN AbortWith(ctx, StatusUnauthorized,
                   "Authorization header format must be Bearer {token}")
    ELSE LET tok == ctx.header.tok
             err == ParseWithClaims(tok, jwtSecret, t)
         IN CNext([ctx EXCEPT !.status = IF err # {} THEN StatusUnauthorized ELSE @,
                              !.message = IF err # {} THEN AuthErrMsg(err) ELSE @,
                              !.keys =
                     [set |-> {"userID", "username", "email", "role"},
                      userID |-> tok.claims.UserID,
                      username |-> tok.claims.Username,
                      email |-> tok.claims.Email,
                      role |-> tok.claims.Role]])

\* AuthMiddleware reloading the account of the token from the users table
AuthMiddlewareReloadsUser(jwtSecret, ctx, t) ==
    IF ctx.header.empty
    THEN AbortWith(ctx, StatusUnauthorized, "Authorization header is required")
    ELSE IF ctx.header.parts # 2 \/ ~EqualFold(ctx.header.scheme, "bearer")
    THEN AbortWith(ctx, StatusUnauthorized,
                   "Authorization header format must be Bearer {token}")
    ELSE LET tok == ctx.header.tok
             err == ParseWithClaims(tok, jwtSecret, t)
             id == tok.claims.UserID
         IN IF err # {}
            THEN AbortWith(ctx, StatusUnauthorized, AuthErrMsg(err))
            ELSE IF id \notin DOMAIN users \/ ~users[id].IsActive
            THEN AbortWith(ctx, StatusUnauthorized, "Token is invalid.")
            ELSE CNext([ctx EXCEPT !.keys =
                     [set |-> {"userID", "username", "email", "role"},
                      userID |-> id,
                      username |-> users[id].Username,
                      email |-> users[id].Email,
                      role |-> IF users[id].RoleID \in DOMAIN roles
                               THEN roles[users[id].RoleID].Name ELSE ""]])

\* AuthMiddleware storing the claims in the context before looking at the parse error
AuthMiddlewareSetsFirst(jwtSecret, ctx, t) ==
    IF ctx.header.empty
    THEN AbortWith(ctx, StatusUnauthorized, "Authorization header is required")
    ELSE IF ctx.header.parts # 2 \/ ~EqualFold(ctx.header.scheme, "bearer")
    THEN AbortWith(ctx, StatusUnauthorized,
                   "Authorization header format must be Bearer {token}")
    ELSE LET tok == ctx.header.tok
             err == ParseWithClaims(tok, jwtSecret, t)
             set == [ctx EXCEPT !.keys =
                     [set |-> {"userID", "username", "email", "role"},
                      userID |-> tok.claims.UserID,
                      username |-> tok.claims.Username,
                      email |-> tok.claims.Email,
                      role |-> tok.claims.Role]]
         IN IF err # {}
            THEN AbortWith(set, StatusUnauthorized, AuthErrMsg(err))
            ELSE CNext(set)

AuthMiddleware(jwtSecret, ctx, t) ==
    IF ctx.header.empty
    THEN AbortWith(ctx, StatusUnauthorized, "Authorization header is required")
    ELSE IF ctx.header.parts # 2 \/ ~EqualFold(ctx.header.scheme, "bearer")
    THEN AbortWith(ctx, StatusUnauthorized,
                   "Authorization header format must be Bearer {token}")
    ELSE LET tok == ctx.header.tok
             err == ParseWithClaims(tok, jwtSecret, t)
         IN IF err # {}
            THEN AbortWith(ctx, StatusUnauthorized, AuthErrMsg(err))
            ELSE CNext([ctx EXCEPT !.keys =
                     [set |-> {"userID", "username", "email", "role"},
                      userID |-> tok.claims.UserID,
                      username |-> tok.claims.Username,
                      email |-> tok.claims.Email,
                      role |-> tok.claims.Role]])

\* slices.Contains(allowedRoles, userRole)
Contains(allowedRoles, userRole) ==
    \E i \in DOMAIN allowedRoles : allowedRoles[i] = userRole

\* the position of a role in the seeding order, 0 for an unknown role
RoleRank(r) ==
    IF \E i \in DOMAIN RoleNames : RoleNames[i] = r
    THEN CHOOSE i \in DOMAIN RoleNames : RoleNames[i] = r
    ELSE 0

\* RBACMiddleware with a role hierarchy: a role is admitted when a role of
\* the allow-list ranks at or below it
RBACMiddlewareRanked(allowedRoles, ctx) ==
    IF "role" \notin ctx.keys.set
    THEN AbortWith(ctx, StatusForbidden,
                   "Access Denied: User role not found in context. Ensure AuthMiddleware runs first.")
    ELSE IF ctx.keys.role = ""
    THEN AbortWith(ctx, StatusForbidden, "Access Denied: User role is empty.")
    ELSE IF ~\E i \in DOMAIN allowedRoles :
               /\ RoleRank(ctx.keys.role) # 0
               /\ RoleRank(allowedRoles[i]) <= RoleRank(ctx.keys.role)
    THEN AbortWith(ctx, StatusForbidden,
                   "Access Denied: You do not have the required role for this resource.")
    ELSE CNext(ctx)

\* the role AuthMiddleware stores is always a string, so the branch that answers
\* 500 to a role of another type is not taken
RBACMiddleware(allowedRoles, ctx) ==
    IF "role" \notin ctx.keys.set
    THEN AbortWith(ctx, StatusForbidden,
                   "Access Denied: User role not found in context. Ensure AuthMiddleware runs first.")
    ELSE IF ctx.keys.role = ""
    THEN AbortWith(ctx, StatusForbidden, "Access Denied: User role is empty.")
    ELSE IF ~Contains(allowedRoles, ctx.keys.role)
    THEN AbortWith(ctx, StatusForbidden,
                   "Access Denied: You do not have the required role for this resource.")
    ELSE CNext(ctx)

\* the final handler of a protected route: utils.SendSuccessResponse(c, 200, ...)
RouteHandler(ctx) ==
    [ctx EXCEPT !.status = StatusOK, !.message = "success", !.handled = TRUE,
                !.index = @ + 1]

(***************************************************************************)
(* The route table of SetupRoutes: the handlers chain gin builds for each  *)
(* protected route (group middleware first, in the order of the Use calls) *)
(***************************************************************************)
AuthH == [kind |-> "auth", allowedRoles |-> <<>>]
RBACH(allowedRoles) == [kind |-> "rbac", allowedRoles |-> allowedRoles]
FinalH == [kind |-> "handler", allowedRoles |-> <<>>]

AdminRoles == <<"admin", "god-admin">>
\* the allow-list of the HR group naming the staff role in place of hr
HRRolesStaff == <<"staff", "admin", "god-admin">>

HRRoles == <<"hr", "admin", "god-admin">>
ManagerRoles == <<"manager", "hr", "admin", "god-admin">>
StaffRoles == <<"staff", "manager", "hr", "admin", "god-admin">>

RBACRoutes ==
    {"/admin/dashboard", "/hr/employee-data", "/manager/team-overview",
     "/staff-area/my-tasks"}
ProtectedRoutes == {"/me"} \cup RBACRoutes

\* the route table with the /hr group's RBACMiddleware registered before AuthMiddleware
SetupRoutesRBACFirst(route) ==
    CASE route = "/me" -> <<AuthH, FinalH>>
      [] route = "/admin/dashboard" -> <<AuthH, RBACH(AdminRoles), FinalH>>
      [] route = "/hr/employee-data" -> <<RBACH(HRRoles), AuthH, FinalH>>
      [] route = "/manager/team-overview" -> <<AuthH, RBACH(ManagerRoles), FinalH>>
      [] route = "/staff-area/my-tasks" -> <<AuthH, RBACH(StaffRoles), FinalH>>

SetupRoutes(route) ==
    CASE route = "/me" -> <<AuthH, FinalH>>
      [] route = "/admin/dashboard" -> <<AuthH, RBACH(AdminRoles), FinalH>>
      [] route = "/hr/employee-data" -> <<AuthH, RBACH(HRRoles), FinalH>>
      [] route = "/manager/team-overview" -> <<AuthH, RBACH(ManagerRoles), FinalH>>
      [] route = "/staff-area/my-tasks" -> <<AuthH, RBACH(StaffRoles), FinalH>>

\* the context gin creates for a request
NewContext(route, header, handlers, keys) ==
    [route |-> route, header |-> header, handlers |-> handlers, index |-> 1,
     aborted |-> FALSE, status |-> 0, message |-> "", handled |-> FALSE,
     keys |-> keys]

\* no request is being served
NoContext == NewContext("", NoHeader, <<>>, NoKeys)

\* the handler the chain runs next, if any
Pending(ctx) == ~ctx.aborted /\ ctx.index <= Len(ctx.handlers)

(***************************************************************************)
(* The credential store: the users and roles tables behind gorm.  A table  *)
(* is the sequence of its rows in primary-key order (ID = position; the    *)
(* core deletes no row).                                                   *)
(***************************************************************************)
NoRole == [ID |-> 0, Name |-> ""]
NoTime == 0
NoHash == [alg |-> "", pw |-> ""]
NoUser ==
    [ID |-> 0, Username |-> "", Email |-> "", Password |-> NoHash,
     IsActive |-> FALSE, RoleID |-> 0, Role |-> NoRole, LastLogin |-> NoTime]

\* the roles table after SeedRoles ran on an empty table
SeededRoles == [i \in DOMAIN RoleNames |-> [ID |-> i, Name |-> RoleNames[i]]]

Min(S) == CHOOSE x \in S : \A y \in S : x <= y

\* db.Where(...).First(&row): the matching row of lowest primary key,
\* 0 standing for gorm.ErrRecordNotFound
First(S) == IF S = {} THEN 0 ELSE Min(S)

\* the lookup with AND in place of OR
FindUserBoth(tbl, username, email) ==
    First({i \in DOMAIN tbl : tbl[i].Username = username /\ tbl[i].Email = email})

\* Where("username = ? OR email = ?", username, email).First(&user)
FindUser(tbl, username, email) ==
    First({i \in DOMAIN tbl : tbl[i].Username = username \/ tbl[i].Email = email})

\* Where("name = ?", name).First(&role)
FindRoleByName(rtbl, name) == First({i \in DOMAIN rtbl : rtbl[i].Name = name})

\* First(&role, id)
FindRoleByID(rtbl, id) == First({i \in DOMAIN rtbl : rtbl[i].ID = id})

\* Preload("Role"): the row with its Role association loaded
Preload(row, rtbl) ==
    LET r == FindRoleByID(rtbl, row.RoleID)
    IN [row EXCEPT !.Role = IF r = 0 THEN NoRole ELSE rtbl[r]]

\* a users table without unique indexes
NoUniqueIndex(tbl, row) == FALSE

\* the uniqueIndex tags of User.Username and User.Email
UniqueViolation(tbl, row) ==
    \E i \in DOMAIN tbl : tbl[i].Username = row.Username \/ tbl[i].Email = row.Email

\* db.Create(&row): the insert, refused by the unique indexes
Create(tbl, row) ==
    IF UniqueViolation(tbl, row)
    THEN [err |-> TRUE, tbl |-> tbl, row |-> row]
    ELSE LET r == [row EXCEPT !.ID = Len(tbl) + 1, !.Role = NoRole]
         IN [err |-> FALSE, tbl |-> Append(tbl, r), row |-> [row EXCEPT !.ID = Len(tbl) + 1]]

\* db.Save(&user): every column of the row is written from the struct
Save(tbl, user) == [tbl EXCEPT ![user.ID] = [user EXCEPT !.Role = NoRole]]

(***************************************************************************)
(* Password hasher (bcrypt): the hash carries its algorithm and cost, and  *)
(* verification compares the digest of the plaintext.                      *)
(***************************************************************************)
HashPassword(password) == [alg |-> "bcrypt", pw |-> password]

\* bcrypt.CompareHashAndPassword: "" for nil, or the error it returns for a value
\* that is too short to be a hash, has another prefix or version, or is the hash
\* of another password
CompareHashAndPassword(hashedPassword, plainPassword) ==
    IF hashedPassword.alg \in {"", "plain"} THEN "ErrHashTooShort"
    ELSE IF hashedPassword.alg # "bcrypt" THEN "HashVersionTooNewError"
    ELSE IF hashedPassword.pw # plainPassword THEN "ErrMismatchedHashAndPassword"
    ELSE ""

\* a verification comparing the stored digest without looking at its format
ValidatePasswordAnyFormat(hashedPassword, plainPassword) ==
    hashedPassword.pw = plainPassword

\* TRUE when bcrypt.CompareHashAndPassword returns nil
ValidatePassword(hashedPassword, plainPassword) ==
    CompareHashAndPassword(hashedPassword, plainPassword) = ""

(***************************************************************************)
(* Auth service.  A service call is given the tables, the request, the     *)
(* clock and the store call that fails with a database error during the    *)
(* call (f, "none" when the store answers every call), and returns its     *)
(* error ("" for nil), the users table it leaves and its result.           *)
(***************************************************************************)
NoToken == Garbage

\* the expiration time without the 7-day default
ExpirationTimeNoDefault(t, hours) == t + hours * HourTicks

\* time.Now().Add(time.Duration(hours) * time.Hour), 7 days when hours is 0
ExpirationTime(t, hours) ==
    IF hours = 0 THEN t + 24 * 7 * HourTicks ELSE t + hours * HourTicks

\* GenerateJWT leaving the user_id claim unset (the id only in the subject)
GenerateJWTNoUserID(user, rtbl, conf, t, f) ==
    LET r == FindRoleByID(rtbl, user.RoleID)
        lookup == user.Role.Name = "" /\ user.RoleID # 0
        roleName == IF lookup /\ r # 0 THEN rtbl[r].Name ELSE user.Role.Name
        claims == [UserID |-> 0, Username |-> user.Username,
                   Email |-> user.Email, Role |-> roleName,
                   Subject |-> ToString(user.ID),
                   ExpiresAt |-> NewNumericDate(ExpirationTime(t, conf.JWTExpirationHours)),
                   IssuedAt |-> NewNumericDate(t), NotBefore |-> NewNumericDate(t)]
    IN IF lookup /\ (f = "role" \/ r = 0)
       THEN [err |-> "could not retrieve role name for JWT generation: ", token |-> NoToken]
       ELSE IF user.Role.Name = "" /\ user.RoleID = 0
       THEN [err |-> "user has no RoleID or Role.Name for JWT generation", token |-> NoToken]
       ELSE [err |-> "", token |-> SignedString("HS256", claims, conf.JWTSecret)]

\* GenerateJWT signing the token with whatever role name the user struct holds
GenerateJWTAnyRole(user, rtbl, conf, t, f) ==
    LET claims == [UserID |-> user.ID, Username |-> user.Username,
                   Email |-> user.Email, Role |-> user.Role.Name,
                   Subject |-> ToString(user.ID),
                   ExpiresAt |-> NewNumericDate(ExpirationTime(t, conf.JWTExpirationHours)),
                   IssuedAt |-> NewNumericDate(t), NotBefore |-> NewNumericDate(t)]
    IN [err |-> "", token |-> SignedString("HS256", claims, conf.JWTSecret)]

GenerateJWT(user, rtbl, conf, t, f) ==
    LET r == FindRoleByID(rtbl, user.RoleID)
        lookup == user.Role.Name = "" /\ user.RoleID # 0
        roleName == IF lookup /\ r # 0 THEN rtbl[r].Name ELSE user.Role.Name
        claims == [UserID |-> user.ID, Username |-> user.Username,
                   Email |-> user.Email, Role |-> roleName,
                   Subject |-> ToString(user.ID),
                   ExpiresAt |-> NewNumericDate(ExpirationTime(t, conf.JWTExpirationHours)),
                   IssuedAt |-> NewNumericDate(t), NotBefore |-> NewNumericDate(t)]
    IN IF lookup /\ (f = "role" \/ r = 0)
       THEN [err |-> "could not retrieve role name for JWT generation: ", token |-> NoToken]
       ELSE IF user.Role.Name = "" /\ user.RoleID = 0
       THEN [err |-> "user has no RoleID or Role.Name for JWT generation", token |-> NoToken]
       ELSE [err |-> "", token |-> SignedString("HS256", claims, conf.JWTSecret)]

\* the role resolution defaulting to "manager"
ResolveRoleDefaultManager(rtbl, req) ==
    IF req.RoleID = 0 THEN FindRoleByName(rtbl, "manager")
                      ELSE FindRoleByID(rtbl, req.RoleID)

\* the role resolution falling back to "staff" for a role_id no role has
ResolveRoleFallback(rtbl, req) ==
    IF req.RoleID = 0 \/ FindRoleByID(rtbl, req.RoleID) = 0
    THEN FindRoleByName(rtbl, "staff")
    ELSE FindRoleByID(rtbl, req.RoleID)

\* a role resolution ignoring the role_id of the request
ResolveRoleStaffOnly(rtbl, req) == FindRoleByName(rtbl, "staff")

\* the role a RegisterRequest resolves to: "staff" when role_id is 0 or absent
ResolveRole(rtbl, req) ==
    IF req.RoleID = 0 THEN FindRoleByName(rtbl, "staff")
                      ELSE FindRoleByID(rtbl, req.RoleID)

\* the User struct without IsActive set
NewUserInactive(req, roleID) ==
    [NoUser EXCEPT !.Username = req.Username, !.Email = req.Email,
                   !.Password = HashPassword(req.Password), !.RoleID = roleID]

\* the User struct RegisterUser inserts
NewUser(req, roleID) ==
    [NoUser EXCEPT !.Username = req.Username, !.Email = req.Email,
                   !.Password = HashPassword(req.Password),
                   !.RoleID = roleID, !.IsActive = TRUE]

RegisterUser(tbl, rtbl, req, f) ==
    LET Fail(e) == [err |-> e, users |-> tbl, user |-> NoUser]
        r == ResolveRole(rtbl, req)
    IN IF f = "check" THEN Fail("database error while checking existing user: ")
       ELSE IF FindUser(tbl, req.Username, req.Email) # 0
       THEN Fail("username or email already exists")
       ELSE IF f = "hash" THEN Fail("failed to hash password: ")
       ELSE IF f = "role"
       THEN Fail(IF req.RoleID = 0 THEN "failed to fetch default 'staff' role: "
                 ELSE "failed to verify role ID " \o ToString(req.RoleID) \o ": ")
       ELSE IF r = 0
       THEN Fail(IF req.RoleID = 0
                 THEN "default 'staff' role not found. Please ensure roles are seeded"
                 ELSE "role with ID " \o ToString(req.RoleID) \o " not found")
       ELSE LET created == IF f = "create"
                           THEN [err |-> TRUE, tbl |-> tbl, row |-> NoUser]
                           ELSE Create(tbl, NewUser(req, rtbl[r].ID))
            IN IF created.err THEN Fail("failed to create user: ")
               ELSE [err |-> "", users |-> created.tbl,
                     user |-> IF f = "preload" THEN created.row
                              ELSE Preload(created.row, rtbl)]

\* what LoginUser returns when it fails before touching the store
LoginFailed(tbl, e, found) ==
    [err |-> e, users |-> tbl, found |-> found, user |-> NoUser, token |-> NoToken]

\* LoginUser failing when the last-login update fails
LoginVerifiedSaveFatal(tbl, rtbl, conf, user, t, f) ==
    LET logged == [user EXCEPT !.LastLogin = t]
        jwt == GenerateJWT(logged, rtbl, conf, t, f)
    IN IF f = "save"
       THEN [err |-> "failed to update last login: ", users |-> tbl, found |-> user,
             user |-> NoUser, token |-> NoToken]
       ELSE IF jwt.err # ""
       THEN [err |-> "failed to generate access token: " \o jwt.err,
             users |-> Save(tbl, logged), found |-> user, user |-> NoUser,
             token |-> NoToken]
       ELSE [err |-> "", users |-> Save(tbl, logged), found |-> user,
             user |-> [logged EXCEPT !.Role.Name = jwt.token.claims.Role],
             token |-> jwt.token]

\* LoginUser once the password is verified: the last-login update (its failure is
\* only logged), the token and the response
LoginVerified(tbl, rtbl, conf, user, t, f) ==
    LET logged == [user EXCEPT !.LastLogin = t]
        saved == IF f = "save" THEN tbl ELSE Save(tbl, logged)
        jwt == GenerateJWT(logged, rtbl, conf, t, f)
    IN IF jwt.err # ""
       THEN [err |-> "failed to generate access token: " \o jwt.err,
             users |-> saved, found |-> user, user |-> NoUser, token |-> NoToken]
       ELSE [err |-> "", users |-> saved, found |-> user,
             user |-> [logged EXCEPT !.Role.Name = jwt.token.claims.Role],
             token |-> jwt.token]

\* LoginUser reporting an unknown identifier with an error of its own
LoginUserNotFoundDistinct(tbl, rtbl, conf, req, t, f) ==
    LET i == FindUser(tbl, req.Username, req.Username)
    IN IF f = "lookup" THEN LoginFailed(tbl, "database error during login: ", NoUser)
       ELSE IF i = 0 THEN LoginFailed(tbl, "user not found", NoUser)
       ELSE LET user == Preload(tbl[i], rtbl) IN
            IF ~user.IsActive THEN LoginFailed(tbl, "user account is inactive", user)
            ELSE IF ~ValidatePassword(user.Password, req.Password)
            THEN LoginFailed(tbl, "invalid username or password", user)
            ELSE LoginVerified(tbl, rtbl, conf, user, t, f)

\* LoginUser without the IsActive check
LoginUserNoActiveCheck(tbl, rtbl, conf, req, t, f) ==
    LET i == FindUser(tbl, req.Username, req.Username)
    IN IF f = "lookup" THEN LoginFailed(tbl, "database error during login: ", NoUser)
       ELSE IF i = 0 THEN LoginFailed(tbl, "invalid username or password", NoUser)
       ELSE LET user == Preload(tbl[i], rtbl) IN
            IF ~ValidatePassword(user.Password, req.Password)
            THEN LoginFailed(tbl, "invalid username or password", user)
            ELSE LoginVerified(tbl, rtbl, conf, user, t, f)

LoginUser(tbl, rtbl, conf, req, t, f) ==
    LET i == FindUser(tbl, req.Username, req.Username)
    IN IF f = "lookup" THEN LoginFailed(tbl, "database error during login: ", NoUser)
       ELSE IF i = 0 THEN LoginFailed(tbl, "invalid username or password", NoUser)
       ELSE LET user == Preload(tbl[i], rtbl) IN
            IF ~user.IsActive THEN LoginFailed(tbl, "user account is inactive", user)
            ELSE IF ~ValidatePassword(user.Password, req.Password)
            THEN LoginFailed(tbl, "invalid username or password", user)
            ELSE LoginVerified(tbl, rtbl, conf, user, t, f)

(***************************************************************************)
(* HTTP boundary: AuthHandler.Register and AuthHandler.Login               *)
(***************************************************************************)
\* strings the "email" binding tag accepts, among the identifiers of the model
EmailShaped == {"a@x.com", "b@x.com", "god@x.com"}

\* c.ShouldBindJSON(&req) against the binding tags of RegisterRequest
BindRegister(req) ==
    /\ Len(req.Username) >= 3 /\ Len(req.Username) <= 100
    /\ req.Email \in EmailShaped
    /\ Len(req.Password) >= MinPasswordLen /\ Len(req.Password) <= 72

\* c.ShouldBindJSON(&req) against the binding tags of LoginRequest
BindLogin(req) == req.Username # "" /\ req.Password # ""

NoView ==
    [ID |-> 0, Username |-> "", Email |-> "", IsActive |-> FALSE,
     RoleID |-> 0, RoleName |-> ""]

\* a response built from the whole User struct, password column included
ViewWithPassword(user) ==
    [ID |-> user.ID, Username |-> user.Username, Email |-> user.Email,
     IsActive |-> user.IsActive, RoleID |-> user.RoleID, RoleName |-> user.Role.Name,
     Password |-> user.Password]

\* UserResponse / UserCompact: the fields of a user a response carries
View(user) ==
    [ID |-> user.ID, Username |-> user.Username, Email |-> user.Email,
     IsActive |-> user.IsActive, RoleID |-> user.RoleID, RoleName |-> user.Role.Name]

Response(status, message, err, user, token) ==
    [status |-> status, message |-> message, err |-> err, user |-> user,
     token |-> token]

ErrorResponse(status, message, err) == Response(status, message, err, NoView, NoToken)

\* the response AuthHandler.Register sends for the error and user RegisterUser returned
RegisterResponse(e, user) ==
    IF e = "" THEN Response(StatusCreated, "User registered successfully", "",
                            View(user), NoToken)
    ELSE IF e = "username or email already exists"
    THEN ErrorResponse(StatusBadRequest, e, e)
    ELSE IF e = "default 'staff' role not found. Please ensure roles are seeded"
    THEN ErrorResponse(StatusInternalServerError, e, e)
    ELSE IF Len(e) > 18 /\ SubSeq(e, 1, 18) = "role with ID"
    THEN ErrorResponse(StatusBadRequest, e, e)
    ELSE ErrorResponse(StatusInternalServerError, "Failed to register user: " \o e, e)

\* the response AuthHandler.Register sends without calling the service, or
\* the response with status 0 when the request passes the boundary checks
RegisterBoundary(req) ==
    IF ~BindRegister(req)
    THEN ErrorResponse(StatusBadRequest, "Invalid request payload: ", "")
    ELSE IF req.Username = "" \/ req.Email = "" \/ req.Password = ""
    THEN ErrorResponse(StatusBadRequest, "Username, email, and password are required", "")
    ELSE IF Len(req.Password) < MinPasswordLen
    THEN ErrorResponse(StatusBadRequest, "Password must be at least 6 characters long", "")
    ELSE ErrorResponse(0, "", "")

\* AuthHandler.Register: the users table it leaves and the response it sends
Register(tbl, rtbl, req, f) ==
    IF RegisterBoundary(req).status # 0
    THEN [users |-> tbl, resp |-> RegisterBoundary(req)]
    ELSE LET res == RegisterUser(tbl, rtbl, req, f)
         IN [users |-> res.users, resp |-> RegisterResponse(res.err, res.user)]

\* AuthHandler.Login
Login(tbl, rtbl, conf, req, t, f) ==
    IF ~BindLogin(req)
    THEN [users |-> tbl, found |-> NoUser,
          resp |-> ErrorResponse(StatusBadRequest, "Invalid request payload: ", "")]
    ELSE LET res == LoginUser(tbl, rtbl, conf, req, t, f)
             e == res.err
         IN [users |-> res.users, found |-> res.found,
             resp |->
               IF e = "" THEN Response(StatusOK, "Login successful", "",
                                       View(res.user), res.token)
               ELSE IF e = "invalid username or password"
               THEN ErrorResponse(StatusUnauthorized, "Invalid username or password", e)
               ELSE IF e = "user account is inactive"
               THEN ErrorResponse(StatusUnauthorized, e, e)
               ELSE ErrorResponse(StatusInternalServerError, "Login failed: " \o e, e)]

(***************************************************************************)
(* Requests of the model                                                   *)
(***************************************************************************)
\* LoadConfig: JWT_EXPIRATION_HOURS defaults to 168
DefaultConfig ==
    [JWTSecret |-> JWTSecret, JWTExpirationHours |-> DefaultExpirationHours,
     GodAdminEmail |-> "god@x.com", GodAdminPassword |-> "godsecret"]

\* values JWT_EXPIRATION_HOURS is configured with
ConfigHours == {0, 1, -1}

\* instants at which the service issues tokens
IssueTimes == {Epoch + d : d \in 0..MaxTick}

\* a user as LoginUser hands it to GenerateJWT, holding role number i
TokenUser(i) ==
    [NoUser EXCEPT !.ID = 1, !.Username = "alice", !.Email = "a@x.com",
                   !.Password = HashPassword("secret1"), !.IsActive = TRUE,
                   !.RoleID = i, !.Role = SeededRoles[i]]

\* the tokens the service signs, for every role, configuration and instant
IssuedTokens ==
    {GenerateJWT(TokenUser(i), SeededRoles,
                 [JWTSecret |-> JWTSecret, JWTExpirationHours |-> h], t, "none").token :
        i \in DOMAIN SeededRoles, h \in ConfigHours, t \in IssueTimes}

\* what a client without the secret can send, and tokens of other HMAC algorithms
ForgeKinds ==
    {<<"HS256", OtherKey>>, <<"HS384", JWTSecret>>, <<"HS384", OtherKey>>,
     <<"none", "">>, <<"RS256", OtherKey>>, <<"XX", JWTSecret>>}

ForgedTokens ==
    {Garbage} \cup
    {SignedString(k[1], tk.claims, k[2]) :
        tk \in {x \in IssuedTokens : x.claims.ExpiresAt > x.claims.NotBefore + HourTicks},
        k \in ForgeKinds}

Tokens == IssuedTokens \cup ForgedTokens

Schemes == {"Bearer", "bearer", "BEARER", "Basic"}

\* the header value "<scheme> <token>"
Bearer(scheme, tok) == [empty |-> FALSE, parts |-> 2, scheme |-> scheme, tok |-> tok]

\* Authorization header values: absent, "Bearer", "<scheme> <token>",
\* "Bearer <token> <more>"
Headers ==
    {NoHeader, [empty |-> FALSE, parts |-> 1, scheme |-> "Bearer", tok |-> Garbage]}
    \cup {Bearer(s, tok) : s \in Schemes, tok \in Tokens}
    \cup {[empty |-> FALSE, parts |-> 3, scheme |-> "Bearer", tok |-> tok] : tok \in Tokens}

\* the instants around the validity window of a token
Instants(tok) ==
    IF tok.wf
    THEN {tok.claims.NotBefore + d : d \in -MaxTick..MaxTick}
         \cup {tok.claims.ExpiresAt + d : d \in -MaxTick..MaxTick}
    ELSE {Epoch}

\* allow-lists RBACMiddleware is applied to: those of the route table, the
\* single roles and the empty list
AllowLists ==
    {AdminRoles, HRRoles, ManagerRoles, StaffRoles, <<>>}
    \cup {<<RoleNames[i]>> : i \in DOMAIN RoleNames}

\* identity contexts RBACMiddleware is applied to: no role key, or any role string
ContextKeys ==
    {NoKeys} \cup
    {[NoKeys EXCEPT !.set = {"userID", "username", "email", "role"}, !.userID = 1,
                    !.username = "alice", !.email = "a@x.com", !.role = r] :
        r \in Range(RoleNames) \cup {"", "intern", "Admin"}}

NoRequest == [Username |-> "", Email |-> "", Password |-> "", RoleID |-> 0]

NoLast ==
    [op |-> "", req |-> NoRequest, fault |-> "none", found |-> NoUser,
     resp |-> ErrorResponse(0, "", "")]

(***************************************************************************)
(* The request pipeline: one action per handler of the chain               *)
(***************************************************************************)
Handler(ctx) == ctx.handlers[ctx.index]

RunAuthMiddleware ==
    /\ Pending(c) /\ Handler(c).kind = "auth"
    /\ c' = AuthMiddleware(cfg.JWTSecret, c, now)
    /\ UNCHANGED <<now, users, roles, cfg, last, procs>>

RunRBACMiddleware ==
    /\ Pending(c) /\ Handler(c).kind = "rbac"
    /\ c' = RBACMiddleware(Handler(c).allowedRoles, c)
    /\ UNCHANGED <<now, users, roles, cfg, last, procs>>

RunRouteHandler ==
    /\ Pending(c) /\ Handler(c).kind = "handler"
    /\ c' = RouteHandler(c)
    /\ UNCHANGED <<now, users, roles, cfg, last, procs>>

\* a request to a protected route of the route table, at any instant
InitGate ==
    /\ c \in {NewContext(r, h, SetupRoutes(r), NoKeys) : r \in ProtectedRoutes, h \in Headers}
    /\ now \in Instants(c.header.tok)
    /\ users = <<>> /\ roles = SeededRoles /\ cfg = DefaultConfig
    /\ last = NoLast /\ procs = <<>>

NextGate == RunAuthMiddleware \/ RunRBACMiddleware \/ RunRouteHandler

SpecGate == InitGate /\ [][NextGate]_vars

\* RBACMiddleware(allowedRoles...) applied to any identity context
InitRBAC ==
    /\ c \in {NewContext("", NoHeader, <<RBACH(l), FinalH>>, k) :
                l \in AllowLists, k \in ContextKeys}
    /\ now = Epoch
    /\ users = <<>> /\ roles = SeededRoles /\ cfg = DefaultConfig
    /\ last = NoLast /\ procs = <<>>

NextRBAC == RunRBACMiddleware \/ RunRouteHandler

SpecRBAC == InitRBAC /\ [][NextRBAC]_vars

(***************************************************************************)
(* The auth service behind its HTTP handlers: one action per request       *)
(* served, and the administrative deactivation of an account               *)
(***************************************************************************)
RegUsernames == {"alice", "b@x.com"}
RegEmails == {"a@x.com", "b@x.com"}
Passwords == {"secret1", "secret2"}

\* role_id of a RegisterRequest: absent, the id of admin, an id no role has
RoleSelectors == {0, 4, 9}

RegisterRequests ==
    {[Username |-> u, Email |-> e, Password |-> p, RoleID |-> r] :
        u \in RegUsernames, e \in RegEmails, p \in Passwords, r \in RoleSelectors}
    \cup {[Username |-> "alice", Email |-> "a@x.com", Password |-> "abc", RoleID |-> 0],
          [Username |-> "", Email |-> "a@x.com", Password |-> "secret1", RoleID |-> 0]}

LoginRequests ==
    {[Username |-> i, Email |-> "", Password |-> p, RoleID |-> 0] :
        i \in RegUsernames \cup RegEmails, p \in Passwords}
    \cup {[Username |-> "alice", Email |-> "", Password |-> "", RoleID |-> 0]}

\* a Register request is served; the store answers every call
ServeRegister ==
    \E req \in RegisterRequests :
        LET out == Register(users, roles, req, "none") IN
        /\ users' = out.users
        /\ last' = [op |-> "register", req |-> req, fault |-> "none", found |-> NoUser,
                    resp |-> out.resp]
        /\ UNCHANGED <<c, now, roles, cfg, procs>>

\* a Login request is served; the store answers every call
ServeLogin ==
    \E req \in LoginRequests :
        LET out == Login(users, roles, cfg, req, now, "none") IN
        /\ users' = out.users
        /\ last' = [op |-> "login", req |-> req, fault |-> "none", found |-> out.found,
                    resp |-> out.resp]
        /\ UNCHANGED <<c, now, roles, cfg, procs>>

\* an administrator deactivates an account (IsActive "can be changed by admin later")
Deactivate ==
    \E i \in DOMAIN users :
        /\ users[i].IsActive
        /\ users' = [users EXCEPT ![i].IsActive = FALSE]
        /\ last' = NoLast
        /\ UNCHANGED <<c, now, roles, cfg, procs>>

InitAuth ==
    /\ users = <<>>
    /\ roles \in {<<>>, SeededRoles}
    /\ now = Epoch + 1
    /\ cfg = DefaultConfig
    /\ c = NoContext /\ last = NoLast /\ procs = <<>>

NextAuth == ServeRegister \/ ServeLogin \/ Deactivate

SpecAuth == InitAuth /\ [][NextAuth]_vars

\* the auth service serving Register requests only
NextRegister == ServeRegister

SpecRegister == InitAuth /\ [][NextRegister]_vars

(***************************************************************************)
(* The auth service over a store whose calls can fail: each request is     *)
(* served with at most one store call (or the hasher) returning an error,  *)
(* the clock advances and a role can be soft-deleted (Role embeds          *)
(* gorm.Model, so a deleted role stays in the table and no query returns   *)
(* it).                                                                    *)
(***************************************************************************)
\* the call of RegisterUser that fails
RegisterFaults == {"none", "check", "hash", "role", "create", "preload"}

\* the call of LoginUser that fails
LoginFaults == {"none", "lookup", "save", "role"}

FaultRegisterRequests ==
    {[Username |-> "alice", Email |-> "a@x.com", Password |-> "secret1", RoleID |-> r] :
        r \in RoleSelectors}
    \cup {[Username |-> "bob99", Email |-> "b@x.com", Password |-> "secret2", RoleID |-> 4]}

FaultLoginRequests ==
    {[Username |-> i, Email |-> "", Password |-> p, RoleID |-> 0] :
        i \in {"alice", "b@x.com"}, p \in Passwords}

\* roles an administrator deletes: staff and admin
DeletableRoles == {1, 4}

FaultRegister ==
    \E req \in FaultRegisterRequests, f \in RegisterFaults :
        LET out == Register(users, roles, req, f) IN
        /\ users' = out.users
        /\ last' = [op |-> "register", req |-> req, fault |-> f, found |-> NoUser,
                    resp |-> out.resp]
        /\ UNCHANGED <<c, now, roles, cfg, procs>>

FaultLogin ==
    \E req \in FaultLoginRequests, f \in LoginFaults :
        LET out == Login(users, roles, cfg, req, now, f) IN
        /\ users' = out.users
        /\ last' = [op |-> "login", req |-> req, fault |-> f, found |-> out.found,
                    resp |-> out.resp]
        /\ UNCHANGED <<c, now, roles, cfg, procs>>

\* an administrator soft-deletes a role
RemoveRole ==
    /\ \E id \in DeletableRoles :
          /\ FindRoleByID(roles, id) # 0
          /\ roles' = SelectSeq(roles, LAMBDA r : r.ID # id)
    /\ last' = NoLast
    /\ UNCHANGED <<c, now, users, cfg, procs>>

\* time passes between two requests
Tick ==
    /\ now < Epoch + 1 + MaxTick
    /\ now' = now + 1
    /\ last' = NoLast
    /\ UNCHANGED <<c, users, roles, cfg, procs>>

InitFault ==
    /\ users = <<>>
    /\ roles = SeededRoles
    /\ now = Epoch + 1
    /\ cfg = DefaultConfig
    /\ c = NoContext /\ last = NoLast /\ procs = <<>>

NextFault == FaultRegister \/ FaultLogin \/ RemoveRole \/ Tick

SpecFault == InitFault /\ [][NextFault]_vars

(***************************************************************************)
(* Login over a users table whose password column holds, for some rows, a  *)
(* value that is not the bcrypt hash the service wrote (an empty column, a *)
(* plaintext, a hash of a later version).                                  *)
(***************************************************************************)
\* values the password column of a row can hold
StoredHashes ==
    {HashPassword("secret1"), NoHash, [alg |-> "plain", pw |-> "secret1"],
     [alg |-> "bcrypt-v9", pw |-> "secret1"]}

\* the users table after two registrations, with any stored password
VerifyStores ==
    LET one == Register(<<>>, SeededRoles,
                   [Username |-> "alice", Email |-> "a@x.com", Password |-> "secret1",
                    RoleID |-> 0], "none").users
        two == Register(one, SeededRoles,
                   [Username |-> "b@x.com", Email |-> "b@x.com", Password |-> "secret2",
                    RoleID |-> 4], "none").users
    IN {[two EXCEPT ![1].Password = h] : h \in StoredHashes}

InitVerify ==
    /\ users \in VerifyStores
    /\ roles = SeededRoles
    /\ now = Epoch + 1
    /\ cfg = DefaultConfig
    /\ c = NoContext /\ last = NoLast /\ procs = <<>>

NextVerify == ServeLogin \/ Deactivate \/ Tick

SpecVerify == InitVerify /\ [][NextVerify]_vars

(***************************************************************************)
(* Two requests to /me, each with a bearer token and the instant it        *)
(* arrives at; AuthMiddleware parses the token of each.                    *)
(***************************************************************************)
\* one token of the service and what can be made of it without the secret or
\* with another algorithm
ParseTokens ==
    LET tk == GenerateJWT(TokenUser(1), SeededRoles,
                  [JWTSecret |-> JWTSecret, JWTExpirationHours |-> 1], Epoch, "none").token
    IN {Garbage, tk} \cup {SignedString(k[1], tk.claims, k[2]) : k \in ForgeKinds}

\* a request with a bearer token, and the instant AuthMiddleware handles it at
ParseRequests ==
    UNION {{[ctx |-> NewContext("/me", Bearer("Bearer", tok), SetupRoutes("/me"), NoKeys),
             at |-> t] : t \in Instants(tok)} : tok \in ParseTokens}

InitParse ==
    /\ procs \in {<<p, q>> : p \in ParseRequests, q \in ParseRequests}
    /\ c = NoContext /\ now = Epoch
    /\ users = <<>> /\ roles = SeededRoles /\ cfg = DefaultConfig /\ last = NoLast

\* AuthMiddleware handles request i
ParseRequest(i) ==
    /\ Pending(procs[i].ctx) /\ Handler(procs[i].ctx).kind = "auth"
    /\ procs' = [procs EXCEPT ![i].ctx = AuthMiddleware(cfg.JWTSecret, @, procs[i].at)]
    /\ UNCHANGED <<c, now, users, roles, cfg, last>>

NextParse == \E i \in 1..2 : ParseRequest(i)

SpecParse == InitParse /\ [][NextParse]_vars

(***************************************************************************)
(* The auth handlers given requests whose fields are empty, made of spaces *)
(* only, or short.                                                         *)
(***************************************************************************)
\* field values: absent, spaces only (two, three and six of them), short, usual
BoundaryUsernames == {"", "  ", "   ", "alice"}
BoundaryEmails == {"", "   ", "a@x.com", "b@x.com"}
BoundaryPasswords == {"", "   ", "      ", "abc", "secret1"}

BoundaryRegisterRequests ==
    {[Username |-> u, Email |-> e, Password |-> p, RoleID |-> 0] :
        u \in BoundaryUsernames, e \in BoundaryEmails, p \in BoundaryPasswords}

BoundaryLoginRequests ==
    {[Username |-> i, Email |-> "", Password |-> p, RoleID |-> 0] :
        i \in BoundaryUsernames, p \in BoundaryPasswords}

\* POST /auth/register with any of these bodies
BoundaryRegister ==
    \E req \in BoundaryRegisterRequests :
        LET out == Register(users, roles, req, "none") IN
        /\ users' = out.users
        /\ last' = [op |-> "register", req |-> req, fault |-> "none", found |-> NoUser,
                    resp |-> out.resp]
        /\ UNCHANGED <<c, now, roles, cfg, procs>>

\* POST /auth/login with any of these bodies
BoundaryLogin ==
    \E req \in BoundaryLoginRequests :
        LET out == Login(users, roles, cfg, req, now, "none") IN
        /\ users' = out.users
        /\ last' = [op |-> "login", req |-> req, fault |-> "none", found |-> out.found,
                    resp |-> out.resp]
        /\ UNCHANGED <<c, now, roles, cfg, procs>>

InitBoundary ==
    /\ users = <<>> /\ roles = SeededRoles
    /\ now = Epoch + 1 /\ cfg = DefaultConfig
    /\ c = NoContext /\ last = NoLast /\ procs = <<>>

NextBoundary == BoundaryRegister \/ BoundaryLogin

SpecBoundary == InitBoundary /\ [][NextBoundary]_vars

(***************************************************************************)
(* Concurrent registration and seeding: each Register request runs in its  *)
(* own goroutine and SeedGodAdmin runs at the start of a server process;   *)
(* every store call is one step, and the steps of the processes            *)
(* interleave.  Process 0 is the seeder, the others serve one Register     *)
(* request each.                                                           *)
(***************************************************************************)
NumClients == 2

Seeder == 0
Clients == 1..NumClients

ConcUsernames == {"alice", "godadmin"}
ConcEmails == {"a@x.com", "god@x.com"}

ConcRequests ==
    {[Username |-> u, Email |-> e, Password |-> "secret1", RoleID |-> 0] :
        u \in ConcUsernames, e \in ConcEmails}

\* the user SeedGodAdmin creates, as a request
GodAdminRequest(conf) ==
    [Username |-> "godadmin", Email |-> conf.GodAdminEmail,
     Password |-> conf.GodAdminPassword, RoleID |-> 0]

\* a process: its position, its request, the row it holds, the error its
\* service call returned and, for a client, the response sent
Proc(pc, req, row, err, resp) ==
    [pc |-> pc, req |-> req, row |-> row, err |-> err, resp |-> resp]

NoResponse == ErrorResponse(0, "", "")

\* RegisterUser up to the existence check, after the handler's boundary checks
RegCheck(p) ==
    /\ procs[p].pc = "idle"
    /\ \E req \in ConcRequests :
          procs' = [procs EXCEPT ![p] =
              IF RegisterBoundary(req).status # 0
              THEN Proc("done", req, NoUser, "", RegisterBoundary(req))
              ELSE IF FindUser(users, req.Username, req.Email) # 0
              THEN Proc("done", req, NoUser, "username or email already exists",
                        RegisterResponse("username or email already exists", NoUser))
              ELSE Proc("create", req, NoUser, "", NoResponse)]
    /\ UNCHANGED <<c, now, users, roles, cfg, last>>

\* RegisterUser from the hash to db.Create
RegCreate(p) ==
    /\ procs[p].pc = "create"
    /\ LET req == procs[p].req
           r == ResolveRole(roles, req)
           e == "default 'staff' role not found. Please ensure roles are seeded"
           created == Create(users, NewUser(req, roles[r].ID))
       IN IF r = 0
          THEN /\ procs' = [procs EXCEPT ![p] =
                      Proc("done", req, NoUser, e, RegisterResponse(e, NoUser))]
               /\ users' = users
          ELSE IF created.err
          THEN /\ procs' = [procs EXCEPT ![p] =
                      Proc("done", req, NoUser, "failed to create user: ",
                           RegisterResponse("failed to create user: ", NoUser))]
               /\ users' = users
          ELSE /\ procs' = [procs EXCEPT ![p] =
                      Proc("preload", req, created.row, "", NoResponse)]
               /\ users' = created.tbl
    /\ UNCHANGED <<c, now, roles, cfg, last>>

\* RegisterUser's Preload("Role").First(&newUser, newUser.ID) and the 201 response
RegPreload(p) ==
    /\ procs[p].pc = "preload"
    /\ LET user == Preload(users[procs[p].row.ID], roles)
       IN procs' = [procs EXCEPT ![p] =
              Proc("done", procs[p].req, user, "", RegisterResponse("", user))]
    /\ UNCHANGED <<c, now, users, roles, cfg, last>>

\* SeedGodAdmin up to the lookup of a user with the god admin email
SeedLookup ==
    /\ procs[Seeder].pc = "idle"
    /\ LET req == procs[Seeder].req
           r == FindRoleByName(roles, "god-admin")
           i == First({j \in DOMAIN users : users[j].Email = cfg.GodAdminEmail})
       IN procs' = [procs EXCEPT ![Seeder] =
              IF cfg.GodAdminEmail = "" \/ cfg.GodAdminPassword = ""
              THEN Proc("done", req, NoUser, "", NoResponse)
              ELSE IF r = 0
              THEN Proc("done", req, NoUser, "'god-admin' role not found: ", NoResponse)
              ELSE IF i # 0
              THEN IF users[i].RoleID # roles[r].ID
                   THEN Proc("save", req, [users[i] EXCEPT !.RoleID = roles[r].ID],
                             "", NoResponse)
                   ELSE Proc("done", req, users[i], "", NoResponse)
              ELSE Proc("create", req, NewUser(req, roles[r].ID), "", NoResponse)]
    /\ UNCHANGED <<c, now, users, roles, cfg, last>>

\* SeedGodAdmin's db.Save(&existingUser)
SeedSave ==
    /\ procs[Seeder].pc = "save"
    /\ users' = Save(users, procs[Seeder].row)
    /\ procs' = [procs EXCEPT ![Seeder].pc = "done"]
    /\ UNCHANGED <<c, now, roles, cfg, last>>

\* SeedGodAdmin's db.Create(&godAdminUser)
SeedCreate ==
    /\ procs[Seeder].pc = "create"
    /\ LET created == Create(users, procs[Seeder].row)
       IN IF created.err
          THEN /\ procs' = [procs EXCEPT ![Seeder] =
                      Proc("done", @.req, NoUser, "error creating god admin user: ",
                           NoResponse)]
               /\ users' = users
          ELSE /\ procs' = [procs EXCEPT ![Seeder] =
                      Proc("done", @.req, created.row, "", NoResponse)]
               /\ users' = created.tbl
    /\ UNCHANGED <<c, now, roles, cfg, last>>

InitConc ==
    /\ users = <<>>
    /\ roles = SeededRoles
    /\ now = Epoch + 1
    /\ cfg = DefaultConfig
    /\ c = NoContext /\ last = NoLast
    /\ procs = [p \in {Seeder} \cup Clients |->
                   IF p = Seeder
                   THEN Proc("idle", GodAdminRequest(DefaultConfig), NoUser, "", NoResponse)
                   ELSE Proc("idle", NoRequest, NoUser, "", NoResponse)]

NextConc ==
    \/ \E p \in Clients : RegCheck(p)
    \/ \E p \in Clients : RegCreate(p)
    \/ \E p \in Clients : RegPreload(p)
    \/ SeedLookup
    \/ SeedSave
    \/ SeedCreate

SpecConc == InitConc /\ [][NextConc]_vars

(***************************************************************************)
(* A session: a user logs in, the token is presented to the protected      *)
(* routes while the clock advances, the account is deactivated and the     *)
(* seeding of a restarted server changes its role.                         *)
(***************************************************************************)
\* SeedGodAdmin creating the user without looking for an existing one
SeedGodAdminNoLookup(tbl, rtbl, conf) ==
    LET r == FindRoleByName(rtbl, "god-admin")
        created == Create(tbl, NewUser(GodAdminRequest(conf), rtbl[r].ID))
    IN IF conf.GodAdminEmail = "" \/ conf.GodAdminPassword = ""
       THEN [err |-> "", users |-> tbl]
       ELSE IF r = 0 THEN [err |-> "'god-admin' role not found: ", users |-> tbl]
       ELSE IF created.err
       THEN [err |-> "error creating god admin user: ", users |-> tbl]
       ELSE [err |-> "", users |-> created.tbl]

\* SeedGodAdmin run to completion: its error and the users table it leaves
SeedGodAdmin(tbl, rtbl, conf) ==
    LET r == FindRoleByName(rtbl, "god-admin")
        i == First({j \in DOMAIN tbl : tbl[j].Email = conf.GodAdminEmail})
        created == Create(tbl, NewUser(GodAdminRequest(conf), rtbl[r].ID))
    IN IF conf.GodAdminEmail = "" \/ conf.GodAdminPassword = ""
       THEN [err |-> "", users |-> tbl]
       ELSE IF r = 0 THEN [err |-> "'god-admin' role not found: ", users |-> tbl]
       ELSE IF i # 0
       THEN [err |-> "",
             users |-> IF tbl[i].RoleID # rtbl[r].ID
                       THEN Save(tbl, [tbl[i] EXCEPT !.RoleID = rtbl[r].ID])
                       ELSE tbl]
       ELSE IF created.err
       THEN [err |-> "error creating god admin user: ", users |-> tbl]
       ELSE [err |-> "", users |-> created.tbl]

\* the account of the session, registered with the god admin email
SessionRequest(r) ==
    [Username |-> "alice", Email |-> "god@x.com", Password |-> "secret1", RoleID |-> r]

\* JWT_EXPIRATION_HOURS=1
SessionConfig == [DefaultConfig EXCEPT !.JWTExpirationHours = 1]

\* the instants of the session: after the login, around the expiry of its token
SessionInstants ==
    {Epoch + d : d \in 1..MaxTick} \cup {Epoch + HourTicks + d : d \in -1..MaxTick}

SessionRoutes == {"/me", "/admin/dashboard", "/staff-area/tasks"}

\* the user logs in and keeps the token of the response
SessLogin ==
    /\ ~Pending(c)
    /\ LET out == Login(users, roles, cfg, SessionRequest(0), now, "none") IN
       /\ users' = out.users
       /\ last' = [op |-> "login", req |-> SessionRequest(0), fault |-> "none",
                   found |-> out.found, resp |-> out.resp]
    /\ c' = NoContext
    /\ UNCHANGED <<now, roles, cfg, procs>>

\* the token of the last login is sent to a protected route
SessRequest ==
    /\ ~Pending(c)
    /\ last.resp.token # NoToken
    /\ \E r \in SessionRoutes \cap ProtectedRoutes :
          c' = NewContext(r, Bearer("Bearer", last.resp.token), SetupRoutes(r), NoKeys)
    /\ UNCHANGED <<now, users, roles, cfg, last, procs>>

\* time passes between two requests
SessAdvance ==
    /\ ~Pending(c)
    /\ \E t \in SessionInstants : t > now /\ now' = t
    /\ c' = NoContext
    /\ UNCHANGED <<users, roles, cfg, last, procs>>

\* an administrator deactivates the account, at any moment
SessDeactivate ==
    /\ \E i \in DOMAIN users :
          /\ users[i].IsActive
          /\ users' = [users EXCEPT ![i].IsActive = FALSE]
    /\ UNCHANGED <<c, now, roles, cfg, last, procs>>

\* a server process starts and runs SeedGodAdmin, at any moment
SessSeedGodAdmin ==
    /\ users' = SeedGodAdmin(users, roles, cfg).users
    /\ users' # users
    /\ UNCHANGED <<c, now, roles, cfg, last, procs>>

InitSession ==
    /\ users \in {Register(<<>>, SeededRoles, SessionRequest(r), "none").users :
                     r \in {0, 4}}
    /\ roles = SeededRoles
    /\ now = Epoch + 1
    /\ cfg = SessionConfig
    /\ c = NoContext /\ last = NoLast /\ procs = <<>>

NextSession ==
    \/ SessLogin \/ SessRequest \/ SessAdvance \/ SessDeactivate \/ SessSeedGodAdmin
    \/ RunAuthMiddleware \/ RunRBACMiddleware \/ RunRouteHandler

SpecSession == InitSession /\ [][NextSession]_vars

(***************************************************************************)
(* Startup: main seeds the roles, seeds the god admin, then runs the       *)
(* router; the auth routes are served from then on.  The server can be     *)
(* restarted, which runs main again over the store as it is.               *)
(***************************************************************************)
\* the primary key db.Create gives a new role
NextRoleID(rtbl) ==
    IF rtbl = <<>> THEN 1
    ELSE 1 + CHOOSE m \in {rtbl[j].ID : j \in DOMAIN rtbl} :
                  \A j \in DOMAIN rtbl : rtbl[j].ID <= m

\* SeedRoles from the i-th name of rolesToSeed on; failing holds the names for
\* which the count or the insert returns an error (logged, the role skipped)
RECURSIVE SeedRolesFrom(_, _, _)
\* the seeding loop creating every role without counting the existing ones
SeedRolesFromNoCount(rtbl, i, failing) ==
    IF i > Len(RoleNames) THEN rtbl
    ELSE SeedRolesFrom(
             IF RoleNames[i] \in failing THEN rtbl
             ELSE Append(rtbl, [ID |-> NextRoleID(rtbl), Name |-> RoleNames[i]]),
             i + 1, failing)

SeedRolesFrom(rtbl, i, failing) ==
    IF i > Len(RoleNames) THEN rtbl
    ELSE LET count == Cardinality({j \in DOMAIN rtbl : rtbl[j].Name = RoleNames[i]})
         IN SeedRolesFrom(
                IF RoleNames[i] \in failing \/ count # 0 THEN rtbl
                ELSE Append(rtbl, [ID |-> NextRoleID(rtbl), Name |-> RoleNames[i]]),
                i + 1, failing)

\* database.SeedRoles(db): the roles table it leaves (it always returns nil)
SeedRoles(rtbl, failing) == SeedRolesFrom(rtbl, 1, failing)

\* the state of main: its position, the seeding steps finished so far, whether
\* a role was skipped for an error and the error SeedGodAdmin returned
Main(pc, done, skipped, err) ==
    [pc |-> pc, done |-> done, skipped |-> skipped, err |-> err]

\* the names whose seeding fails in a run
SeedFailures == {{}, {"god-admin"}, {"staff", "hr"}}

\* roles tables main finds: empty, seeded, partly seeded, holding other roles
StartRoleStores ==
    {<<>>, SeededRoles, <<[ID |-> 1, Name |-> "admin"]>>,
     <<[ID |-> 1, Name |-> "staff"], [ID |-> 2, Name |-> "intern"]>>}

\* configurations main loads: with and without the god admin credentials
StartConfigs == {DefaultConfig, [DefaultConfig EXCEPT !.GodAdminEmail = ""]}

StartRegisterRequests ==
    {[Username |-> "alice", Email |-> "a@x.com", Password |-> "secret1", RoleID |-> 0],
     [Username |-> "bob99", Email |-> "god@x.com", Password |-> "secret2", RoleID |-> 4]}

StartLoginRequests ==
    {[Username |-> "god@x.com", Email |-> "", Password |-> "godsecret", RoleID |-> 0],
     [Username |-> "alice", Email |-> "", Password |-> "secret1", RoleID |-> 0]}

InitStartup ==
    /\ users = <<>>
    /\ roles \in StartRoleStores
    /\ cfg \in StartConfigs
    /\ now = Epoch + 1
    /\ c = NoContext /\ last = NoLast
    /\ procs = Main("seedRoles", <<>>, FALSE, "")

\* main: database.SeedRoles(db), its error only logged
MainSeedRoles ==
    /\ procs.pc = "seedRoles"
    /\ \E failing \in SeedFailures :
          /\ roles' = SeedRoles(roles, failing)
          /\ procs' = Main("seedGodAdmin", Append(procs.done, "SeedRoles"),
                           failing # {}, "")
    /\ UNCHANGED <<c, now, users, cfg, last>>

\* main exiting when SeedGodAdmin returns an error
MainSeedGodAdminFatal ==
    /\ procs.pc = "seedGodAdmin"
    /\ LET res == SeedGodAdmin(users, roles, cfg)
       IN /\ users' = res.users
          /\ procs' = Main(IF res.err # "" THEN "exited" ELSE "run",
                           Append(procs.done, "SeedGodAdmin"), procs.skipped, res.err)
    /\ UNCHANGED <<c, now, roles, cfg, last>>

\* main: database.SeedGodAdmin(db, cfg), its error only logged
MainSeedGodAdmin ==
    /\ procs.pc = "seedGodAdmin"
    /\ LET res == SeedGodAdmin(users, roles, cfg)
       IN /\ users' = res.users
          /\ procs' = Main("run", Append(procs.done, "SeedGodAdmin"), procs.skipped,
                           res.err)
    /\ UNCHANGED <<c, now, roles, cfg, last>>

\* main: routes.SetupRoutes and router.Run, the server listens
MainRun ==
    /\ procs.pc = "run"
    /\ procs' = [procs EXCEPT !.pc = "serving"]
    /\ UNCHANGED <<c, now, users, roles, cfg, last>>

\* POST /auth/register on the running server
StartedRegister ==
    /\ procs.pc = "serving"
    /\ \E req \in StartRegisterRequests :
          LET out == Register(users, roles, req, "none") IN
          /\ users' = out.users
          /\ last' = [op |-> "register", req |-> req, fault |-> "none",
                      found |-> NoUser, resp |-> out.resp]
    /\ UNCHANGED <<c, now, roles, cfg, procs>>

\* POST /auth/login on the running server
StartedLogin ==
    /\ procs.pc = "serving"
    /\ \E req \in StartLoginRequests :
          LET out == Login(users, roles, cfg, req, now, "none") IN
          /\ users' = out.users
          /\ last' = [op |-> "login", req |-> req, fault |-> "none",
                      found |-> out.found, resp |-> out.resp]
    /\ UNCHANGED <<c, now, roles, cfg, procs>>

\* the server is stopped and started again: main runs over the store as it is
Restart ==
    /\ procs.pc = "serving"
    /\ procs' = Main("seedRoles", <<>>, FALSE, "")
    /\ last' = NoLast
    /\ UNCHANGED <<c, now, users, roles, cfg>>

NextStartup ==
    \/ MainSeedRoles \/ MainSeedGodAdmin \/ MainRun
    \/ StartedRegister \/ StartedLogin \/ Restart

\* main runs its statements one after the other
SpecStartup ==
    InitStartup /\ [][NextStartup]_vars
    /\ WF_vars(MainSeedRoles) /\ WF_vars(MainSeedGodAdmin) /\ WF_vars(MainRun)

(***************************************************************************)
(* Logins running concurrently with an administrator: LoginUser reads the  *)
(* user, and in a later statement writes it back with db.Save; between the *)
(* two the administrator deactivates an account or changes its role.       *)
(***************************************************************************)
RaceLoginRequests ==
    {[Username |-> "alice", Email |-> "", Password |-> p, RoleID |-> 0] :
        p \in Passwords}
    \cup {[Username |-> "b@x.com", Email |-> "", Password |-> "secret2", RoleID |-> 0]}

\* the roles an administrator gives an account: staff, admin
AdminRoleChoices == {1, 4}

\* LoginUser up to the password verification (service.go: lookup, active, password)
LoginLookup(p) ==
    /\ procs[p].pc = "idle"
    /\ \E req \in RaceLoginRequests :
          LET i == FindUser(users, req.Username, req.Username)
              user == Preload(users[i], roles)
          IN procs' = [procs EXCEPT ![p] =
                 IF i = 0 \/ ~users[i].IsActive
                    \/ ~ValidatePassword(users[i].Password, req.Password)
                 THEN Proc("done", req, NoUser, "",
                           Login(users, roles, cfg, req, now, "none").resp)
                 ELSE Proc("save", req, user, "", NoResponse)]
    /\ UNCHANGED <<c, now, users, roles, cfg, last>>

\* LoginUser from the LastLogin write on: db.Save(&user), GenerateJWT, response
LoginSave(p) ==
    /\ procs[p].pc = "save"
    /\ LET out == LoginVerified(users, roles, cfg, procs[p].row, now, "none")
       IN /\ users' = out.users
          /\ procs' = [procs EXCEPT ![p] =
                 Proc("done", @.req, @.row, out.err,
                      IF out.err = ""
                      THEN Response(StatusOK, "Login successful", "", View(out.user),
                                    out.token)
                      ELSE ErrorResponse(StatusInternalServerError,
                                         "Login failed: " \o out.err, out.err))]
    /\ UNCHANGED <<c, now, roles, cfg, last>>

\* an administrator deactivates an account
AdminDeactivate ==
    /\ \E i \in DOMAIN users :
          /\ users[i].IsActive
          /\ users' = [users EXCEPT ![i].IsActive = FALSE]
    /\ UNCHANGED <<c, now, roles, cfg, last, procs>>

\* an administrator gives an account another role
AdminChangeRole ==
    /\ \E i \in DOMAIN users, r \in AdminRoleChoices :
          /\ users[i].RoleID # r
          /\ users' = [users EXCEPT ![i].RoleID = r]
    /\ UNCHANGED <<c, now, roles, cfg, last, procs>>

InitRace ==
    /\ users = Register(Register(<<>>, SeededRoles,
                            [Username |-> "alice", Email |-> "a@x.com",
                             Password |-> "secret1", RoleID |-> 0], "none").users,
                        SeededRoles,
                        [Username |-> "bob99", Email |-> "b@x.com",
                         Password |-> "secret2", RoleID |-> 4], "none").users
    /\ roles = SeededRoles
    /\ now = Epoch + 1
    /\ cfg = DefaultConfig
    /\ c = NoContext /\ last = NoLast
    /\ procs = [p \in Clients |-> Proc("idle", NoRequest, NoUser, "", NoResponse)]

NextRace ==
    \/ \E p \in Clients : LoginLookup(p)
    \/ \E p \in Clients : LoginSave(p)
    \/ AdminDeactivate
    \/ AdminChangeRole

SpecRace == InitRace /\ [][NextRace]_vars

(***************************************************************************)
(* Issuance under every configuration LoadConfig produces: the server      *)
(* loads JWT_EXPIRATION_HOURS at startup, a user logs in and presents the  *)
(* token at once.                                                          *)
(***************************************************************************)
\* an environment variable: whether it is set, and its value
EnvVar(exists, value) == [exists |-> exists, value |-> value]

\* values of JWT_EXPIRATION_HOURS in the environment
EnvValues ==
    {EnvVar(FALSE, "")} \cup
    {EnvVar(TRUE, v) : v \in {"", "abc", "0", "1", "-1", "168"}}

\* getEnv(key, defaultValue)
GetEnv(env, defaultValue) == IF env.exists THEN env.value ELSE defaultValue

\* strconv.Atoi on the strings of the model
Atoi(s) ==
    CASE s = "0" -> [err |-> FALSE, n |-> 0]
      [] s = "1" -> [err |-> FALSE, n |-> 1]
      [] s = "-1" -> [err |-> FALSE, n |-> -1]
      [] s = "168" -> [err |-> FALSE, n |-> 168]
      [] OTHER -> [err |-> TRUE, n |-> 0]

\* LoadConfig: JWTExpirationHours from JWT_EXPIRATION_HOURS, 168 by default and
\* when the value is no integer
LoadConfig(env) ==
    LET a == Atoi(GetEnv(env, "168"))
    IN [DefaultConfig EXCEPT !.JWTExpirationHours =
            IF a.err THEN DefaultExpirationHours ELSE a.n]

IssueLoginRequests ==
    {[Username |-> "alice", Email |-> "", Password |-> p, RoleID |-> 0] :
        p \in Passwords}

IssueRoutes == {"/me", "/staff-area/my-tasks"}

\* POST /auth/login
IssueLogin ==
    /\ ~Pending(c)
    /\ \E req \in IssueLoginRequests :
          LET out == Login(users, roles, cfg, req, now, "none") IN
          /\ users' = out.users
          /\ last' = [op |-> "login", req |-> req, fault |-> "none",
                      found |-> out.found, resp |-> out.resp]
    /\ c' = NoContext
    /\ UNCHANGED <<now, roles, cfg, procs>>

\* the token of the last login is sent to a protected route
IssuePresent ==
    /\ ~Pending(c)
    /\ last.resp.token # NoToken
    /\ \E r \in IssueRoutes :
          c' = NewContext(r, Bearer("Bearer", last.resp.token), SetupRoutes(r), NoKeys)
    /\ UNCHANGED <<now, users, roles, cfg, last, procs>>

\* time passes between two requests
IssueTick ==
    /\ ~Pending(c)
    /\ now < Epoch + MaxTick
    /\ now' = now + 1
    /\ c' = NoContext
    /\ UNCHANGED <<users, roles, cfg, last, procs>>

InitIssue ==
    /\ cfg \in {LoadConfig(env) : env \in EnvValues}
    /\ users = Register(<<>>, SeededRoles,
                   [Username |-> "alice", Email |-> "a@x.com", Password |-> "secret1",
                    RoleID |-> 0], "none").users
    /\ roles = SeededRoles
    /\ now = Epoch
    /\ c = NoContext /\ last = NoLast /\ procs = <<>>

NextIssue ==
    \/ IssueLogin \/ IssuePresent \/ IssueTick
    \/ RunAuthMiddleware \/ RunRBACMiddleware \/ RunRouteHandler

SpecIssue == InitIssue /\ [][NextIssue]_vars

(***************************************************************************)
(* The public endpoints used by a client that holds no token: it registers *)
(* an account with a role_id of its choice, logs in and sends the token to *)
(* the protected routes.                                                   *)
(***************************************************************************)
\* role_id values of the request: absent, every seeded role, an id no role has
PublicRoleSelectors == {0, 9} \cup DOMAIN SeededRoles

PublicRegisterRequests ==
    {[Username |-> "alice", Email |-> "a@x.com", Password |-> "secret1", RoleID |-> r] :
        r \in PublicRoleSelectors}
    \cup {[Username |-> "bob99", Email |-> "b@x.com", Password |-> "secret2", RoleID |-> r] :
        r \in {3, 5}}

PublicLoginRequests ==
    {[Username |-> "alice", Email |-> "", Password |-> p, RoleID |-> 0] : p \in Passwords}
    \cup {[Username |-> "bob99", Email |-> "", Password |-> "secret2", RoleID |-> 0]}

PublicRoutes == {"/me", "/admin/dashboard", "/hr/employee-data"}

\* POST /auth/register, no token asked for
PublicRegister ==
    /\ ~Pending(c)
    /\ \E req \in PublicRegisterRequests :
          LET out == Register(users, roles, req, "none") IN
          /\ users' = out.users
          /\ last' = [op |-> "register", req |-> req, fault |-> "none",
                      found |-> NoUser, resp |-> out.resp]
    /\ c' = NoContext
    /\ UNCHANGED <<now, roles, cfg, procs>>

\* POST /auth/login
PublicLogin ==
    /\ ~Pending(c)
    /\ \E req \in PublicLoginRequests :
          LET out == Login(users, roles, cfg, req, now, "none") IN
          /\ users' = out.users
          /\ last' = [op |-> "login", req |-> req, fault |-> "none",
                      found |-> out.found, resp |-> out.resp]
    /\ c' = NoContext
    /\ UNCHANGED <<now, roles, cfg, procs>>

\* the token of the last login is sent to a protected route
PublicPresent ==
    /\ ~Pending(c)
    /\ last.resp.token # NoToken
    /\ \E r \in PublicRoutes :
          c' = NewContext(r, Bearer("Bearer", last.resp.token), SetupRoutes(r), NoKeys)
    /\ UNCHANGED <<now, users, roles, cfg, last, procs>>

InitPublic ==
    /\ users = <<>> /\ roles = SeededRoles
    /\ now = Epoch + 1 /\ cfg = DefaultConfig
    /\ c = NoContext /\ last = NoLast /\ procs = <<>>

NextPublic ==
    \/ PublicRegister \/ PublicLogin \/ PublicPresent
    \/ RunAuthMiddleware \/ RunRBACMiddleware \/ RunRouteHandler

SpecPublic == InitPublic /\ [][NextPublic]_vars

(***************************************************************************)
(* The browser client: the AuthProvider of contexts/AuthContext.tsx, the   *)
(* App component that renders the pages, and the login and register pages. *)
(* procs holds the provider's state, localStorage and the mounted page.    *)
(***************************************************************************)
\* JavaScript null, and what localStorage.getItem returns for a missing key
null == "null"

\* access tokens and User objects the API returns
AccessTokens == {"t1", "t2"}

AuthUsers == {"alice", "bob"}

\* JSON.stringify(data.user)
JSONStringify(u) == IF u = "alice" THEN "{alice}" ELSE "{bob}"

\* JSON.parse(storedUserString): the object, or a SyntaxError
JSONParse(text) ==
    IF \E u \in AuthUsers : JSONStringify(u) = text
    THEN [threw |-> FALSE,
          value |-> CHOOSE u \in AuthUsers : JSONStringify(u) = text]
    ELSE [threw |-> TRUE, value |-> null]

\* the useState defaults of AuthProvider; localStorage is the browser's
AuthProvider(storage) ==
    [user |-> null, token |-> null, isAuthenticated |-> FALSE,
     isLoading |-> TRUE, error |-> null, localStorage |-> storage]

EmptyStorage == [authToken |-> null, authUser |-> null]

\* the initial-load effect of AuthProvider
InitialLoadEffect(s) ==
    LET storedToken == s.localStorage.authToken
        storedUserString == s.localStorage.authUser
        parsed == JSONParse(storedUserString)
    IN  IF storedToken # null /\ storedUserString # null
        THEN IF parsed.threw
             THEN [s EXCEPT !.localStorage = EmptyStorage, !.isLoading = FALSE]
             ELSE [s EXCEPT !.token = storedToken, !.user = parsed.value,
                            !.isAuthenticated = TRUE, !.isLoading = FALSE]
        ELSE [s EXCEPT !.isLoading = FALSE]

\* what apiLoginUser and apiRegisterUser settle with: data, or an error with a
\* message (null when the error carries none)
NoData == [access_token |-> null, user |-> null]

Resolved(data) == [ok |-> TRUE, data |-> data, message |-> null]

Rejected(message) == [ok |-> FALSE, data |-> NoData, message |-> message]

LoginOutcomes ==
    {Resolved([access_token |-> t, user |-> u]) : t \in AccessTokens, u \in AuthUsers}
    \cup {Rejected(m) : m \in {null, "Invalid credentials"}}

RegisterOutcomes ==
    {Resolved(NoData)} \cup {Rejected(m) : m \in {null, "Username already exists"}}

\* no call of the API
NoOutcome == [ok |-> FALSE, data |-> NoData, message |-> null]

Outcomes(reg, out) == [reg |-> reg, login |-> out]

\* err.message || fallback
MessageOr(message, fallback) == IF message # null THEN message ELSE fallback

handleAuthSuccess(s, data) ==
    [s EXCEPT !.user = data.user,
              !.token = data.access_token,
              !.isAuthenticated = TRUE,
              !.localStorage = [authToken |-> data.access_token,
                                authUser |-> JSONStringify(data.user)],
              !.error = null]

\* login(credentials), with the outcome of apiLoginUser; it settles without
\* an error whatever the outcome
login(s, out) ==
    LET s1 == [s EXCEPT !.isLoading = TRUE, !.error = null]
        s2 == IF out.ok
              THEN handleAuthSuccess(s1, out.data)
              ELSE [s1 EXCEPT
                      !.error = MessageOr(out.message,
                                  "Login failed. Please check your credentials."),
                      !.isAuthenticated = FALSE,
                      !.user = null,
                      !.token = null]
    IN  [s2 EXCEPT !.isLoading = FALSE]

\* register(userData), with the outcomes of apiRegisterUser and of the
\* apiLoginUser that follows a successful registration
register(s, reg, out) ==
    LET s1 == [s EXCEPT !.isLoading = TRUE, !.error = null]
        s2 == IF reg.ok
              THEN login(s1, out)
              ELSE [s1 EXCEPT
                      !.error = MessageOr(reg.message, "Registration failed."),
                      !.isAuthenticated = FALSE,
                      !.user = null,
                      !.token = null]
    IN  [s2 EXCEPT !.isLoading = FALSE]

logout(s) ==
    [s EXCEPT !.user = null, !.token = null, !.isAuthenticated = FALSE,
              !.localStorage = EmptyStorage, !.error = null]

\* App: a progress indicator while the context is loading, the routes otherwise
App(s) == IF s.isLoading THEN "CircularProgress" ELSE "Routes"

\* a page as mounted: the useState defaults of LoginPage and RegisterPage
Mount(name) == [name |-> name, snackbarOpen |-> FALSE, localValidationError |-> null]

\* the pages' redirect effect, and App's route for /dashboard
Redirect(s, page) ==
    IF s.isAuthenticated /\ page.name \in {"LoginPage", "RegisterPage"}
    THEN Mount("DashboardPage")
    ELSE IF ~s.isAuthenticated /\ page.name = "DashboardPage"
         THEN Mount("LoginPage")
         ELSE page

\* the page after a call of the context that set isLoading: App replaced the
\* routes by the progress indicator during the call, so the instance that made
\* the call was unmounted and its setSnackbarOpen changes no page; the page is
\* mounted anew when isLoading is false again
AfterCall(s, page, open) ==
    IF App([s EXCEPT !.isLoading = TRUE]) = "Routes"
    THEN Redirect(s, [page EXCEPT !.snackbarOpen = open])
    ELSE Redirect(s, Mount(page.name))

\* what the forms hold: identifier, username, email and password
FormTexts == {"", " ", "alice", "secret1"}

Trim(text) == IF text = " " THEN "" ELSE text

Length(text) ==
    CASE text = "" -> 0
      [] text = " " -> 1
      [] text = "alice" -> 5
      [] OTHER -> 7

\* LoginPage.handleSubmit; opened tells whether it called setSnackbarOpen(true)
LoginPageHandleSubmit(s, page, identifier, password, out) ==
    LET s0 == [s EXCEPT !.error = null] IN
    IF Trim(identifier) = "" \/ Trim(password) = ""
    THEN [s |-> s0,
          page |-> [page EXCEPT !.snackbarOpen = FALSE,
                                !.localValidationError =
                                    "Username/Email and password cannot be empty."],
          opened |-> FALSE]
    ELSE LET s1 == login(s0, out) IN
         [s |-> s1, page |-> AfterCall(s1, page, TRUE), opened |-> TRUE]

\* RegisterPage.handleSubmit
RegisterPageHandleSubmit(s, page, username, email, password, reg, out) ==
    LET s0 == [s EXCEPT !.error = null] IN
    IF Trim(username) = "" \/ Trim(email) = "" \/ Trim(password) = ""
    THEN [s |-> s0,
          page |-> [page EXCEPT !.snackbarOpen = FALSE,
                                !.localValidationError =
                                    "Username, email, and password cannot be empty."],
          opened |-> FALSE]
    ELSE IF Length(password) < 6
    THEN [s |-> s0,
          page |-> [page EXCEPT !.snackbarOpen = FALSE,
                                !.localValidationError =
                                    "Password must be at least 6 characters long."],
          opened |-> FALSE]
    ELSE LET s1 == register(s0, reg, out) IN
         [s |-> s1, page |-> AfterCall(s1, page, TRUE), opened |-> TRUE]

\* the client's state: the provider and the page App shows
Browser(s, page) == [s EXCEPT !.page = page]

\* what the last operation was, what it was given, the authentication state
\* before it, and whether a page called setSnackbarOpen(true)
ClientLast(op, req, s, opened) ==
    [op |-> op, req |-> req, fault |-> "none",
     found |-> [isAuthenticated |-> s.isAuthenticated, user |-> s.user,
                token |-> s.token],
     resp |-> [opened |-> opened]]

\* what localStorage holds when the page is opened: nothing, the two entries a
\* login wrote, or an authUser entry that is no JSON
StoredStates ==
    {EmptyStorage}
    \cup {[authToken |-> t, authUser |-> JSONStringify(u)] :
             t \in AccessTokens, u \in AuthUsers}
    \cup {[authToken |-> "t1", authUser |-> "{"]}

InitClient ==
    /\ \E storage \in StoredStates :
          procs = AuthProvider(storage) @@ [page |-> Mount("LoginPage")]
    /\ last = ClientLast("construct", Outcomes(NoOutcome, NoOutcome),
                          AuthProvider(EmptyStorage), FALSE)
    /\ c = NoContext /\ users = <<>> /\ roles = SeededRoles
    /\ cfg = DefaultConfig /\ now = Epoch

\* the initial-load effect runs once the provider is mounted
InitialLoad ==
    /\ procs.isLoading
    /\ LET s == InitialLoadEffect(procs) IN
          procs' = Browser(s, Redirect(s, procs.page))
    /\ last' = [last EXCEPT !.op = IF last.op = "reload" THEN "restored" ELSE "loaded"]
    /\ UNCHANGED <<c, now, users, roles, cfg>>

\* the user reloads the page: the provider is constructed anew, localStorage stays
Reload ==
    /\ ~procs.isLoading
    /\ procs' = AuthProvider(procs.localStorage) @@ [page |-> Mount(procs.page.name)]
    /\ last' = ClientLast("reload", Outcomes(NoOutcome, NoOutcome), procs, FALSE)
    /\ UNCHANGED <<c, now, users, roles, cfg>>

\* a consumer of the context calls login
ContextLogin ==
    /\ ~procs.isLoading
    /\ \E out \in LoginOutcomes :
          LET s == login(procs, out) IN
          /\ procs' = Browser(s, AfterCall(s, procs.page, procs.page.snackbarOpen))
          /\ last' = ClientLast("login", Outcomes(NoOutcome, out), procs, FALSE)
    /\ UNCHANGED <<c, now, users, roles, cfg>>

\* a consumer of the context calls register
ContextRegister ==
    /\ ~procs.isLoading
    /\ \E reg \in RegisterOutcomes, out \in LoginOutcomes :
          LET s == register(procs, reg, out) IN
          /\ procs' = Browser(s, AfterCall(s, procs.page, procs.page.snackbarOpen))
          /\ last' = ClientLast("register", Outcomes(reg, out), procs, FALSE)
    /\ UNCHANGED <<c, now, users, roles, cfg>>

\* a consumer of the context calls logout
ContextLogout ==
    /\ ~procs.isLoading
    /\ LET s == logout(procs) IN
          procs' = Browser(s, Redirect(s, procs.page))
    /\ last' = ClientLast("logout", Outcomes(NoOutcome, NoOutcome), procs, FALSE)
    /\ UNCHANGED <<c, now, users, roles, cfg>>

\* the user follows the link to the other form
Navigate ==
    /\ App(procs) = "Routes"
    /\ procs.page.name \in {"LoginPage", "RegisterPage"}
    /\ procs' = Browser(procs,
                    Mount(IF procs.page.name = "LoginPage"
                          THEN "RegisterPage" ELSE "LoginPage"))
    /\ last' = ClientLast("navigate", Outcomes(NoOutcome, NoOutcome), procs, FALSE)
    /\ UNCHANGED <<c, now, users, roles, cfg>>

\* the login form is submitted
LoginPageSubmit ==
    /\ App(procs) = "Routes"
    /\ procs.page.name = "LoginPage"
    /\ \E identifier \in FormTexts, password \in FormTexts, out \in LoginOutcomes :
          LET r == LoginPageHandleSubmit(procs, procs.page, identifier, password, out)
          IN  /\ procs' = Browser(r.s, r.page)
              /\ last' = ClientLast("LoginPage.handleSubmit",
                             Outcomes(NoOutcome, out), procs, r.opened)
    /\ UNCHANGED <<c, now, users, roles, cfg>>

\* the register form is submitted
RegisterPageSubmit ==
    /\ App(procs) = "Routes"
    /\ procs.page.name = "RegisterPage"
    /\ \E username \in {"", "alice"}, email \in {"", "alice"},
          password \in FormTexts, reg \in RegisterOutcomes, out \in LoginOutcomes :
          LET r == RegisterPageHandleSubmit(procs, procs.page, username, email,
                                            password, reg, out)
          IN  /\ procs' = Browser(r.s, r.page)
              /\ last' = ClientLast("RegisterPage.handleSubmit",
                             Outcomes(reg, out), procs, r.opened)
    /\ UNCHANGED <<c, now, users, roles, cfg>>

NextClient ==
    \/ InitialLoad \/ Reload
    \/ ContextLogin \/ ContextRegister \/ ContextLogout
    \/ Navigate \/ LoginPageSubmit \/ RegisterPageSubmit

SpecClient == InitClient /\ [][NextClient]_vars

(***************************************************************************)
(* Properties of the gates                                                 *)
(***************************************************************************)
\* the identity context holds a non-empty role that is a member of allow-list l
RoleIn(l, keys) == "role" \in keys.set /\ keys.role # "" /\ keys.role \in Range(l)

\* the position of RBACMiddleware in the chain, 0 when the chain has none
RBACPos(ctx) == First({i \in DOMAIN ctx.handlers : ctx.handlers[i].kind = "rbac"})

\* the handler at position i of the chain has run
Ran(ctx, i) == ctx.index > i \/ (ctx.aborted /\ ctx.index = i)

\* C1: once RBACMiddleware(l...) has run, the request went on to the next handler
\* if and only if the context holds a non-empty role that is a member of l;
\* otherwise (role key absent, role empty, role not in l, whatever other roles l
\* lists) the response is 403, the chain is aborted and the handler never runs.
C1_RBACAdmitsExactlyMembers ==
    (RBACPos(c) = 1 /\ Ran(c, 1)) =>
        LET member == RoleIn(c.handlers[1].allowedRoles, c.keys) IN
        /\ member <=> (~c.aborted /\ c.index >= 2)
        /\ ~member => (c.aborted /\ c.status = StatusForbidden /\ ~c.handled)
        /\ c.handled => member

\* an admin presented to the allow-list <<"hr">> has been turned away
C1_Witness ==
    /\ RBACPos(c) = 1 /\ Ran(c, 1)
    /\ c.handlers[1].allowedRoles = <<"hr">> /\ c.keys.role = "admin"
    /\ "role" \in c.keys.set
    /\ c.aborted /\ c.status = StatusForbidden

\* the header value is "<bearer in any case> <token>"
BearerShaped(h) == ~h.empty /\ h.parts = 2 /\ h.scheme \in {"Bearer", "bearer", "BEARER"}

\* the token is a JWT signed with an HMAC algorithm under the configured secret
\* and the instant t is inside its validity window
CodecAccepts(tok, t) ==
    /\ tok.wf /\ tok.alg \in {"HS256", "HS384", "HS512"} /\ tok.key = cfg.JWTSecret
    /\ tok.claims.NotBefore <= t /\ t < tok.claims.ExpiresAt

\* C2: a protected handler has run only if the bearer token is well formed, signed
\* with an HMAC algorithm under the configured secret and NotBefore <= now <
\* ExpiresAt; and once AuthMiddleware has run on a token failing any of these,
\* the response is 401, the chain is aborted and the handler never runs.
C2_HandlerOnlyForValidToken ==
    (c.handlers # <<>> /\ c.handlers[1].kind = "auth") =>
        /\ c.handled => (BearerShaped(c.header) /\ CodecAccepts(c.header.tok, now))
        /\ (Ran(c, 1) /\ BearerShaped(c.header) /\ ~CodecAccepts(c.header.tok, now)) =>
               (c.status = StatusUnauthorized /\ c.aborted /\ c.index = 1 /\ ~c.handled)

\* the handler ran for a token presented at the last tick of its validity window
C2_Witness ==
    /\ c.handlers # <<>> /\ c.handlers[1].kind = "auth"
    /\ c.handled /\ c.header.tok.key = cfg.JWTSecret
    /\ now = c.header.tok.claims.ExpiresAt - 1

AuthMessages ==
    {"Authorization header is required",
     "Authorization header format must be Bearer {token}",
     "Token is malformed.", "Token has expired.", "Token not yet valid.",
     "Token signature is invalid or signing method is not supported.",
     "Invalid token: "}

\* C3: on the routes of the /admin, /hr, /manager and /staff-area groups,
\* RBACMiddleware is reached only with the identity context populated by
\* AuthMiddleware from the token, and a request without a valid token is answered
\* 401 with a message of AuthMiddleware: never 403, never by the route handler.
C3_AuthRunsBeforeRBAC ==
    c.route \in RBACRoutes =>
        /\ RBACPos(c) # 0
        /\ c.index >= RBACPos(c) =>
               /\ c.keys.set = {"userID", "username", "email", "role"}
               /\ c.keys.role = c.header.tok.claims.Role
               /\ BearerShaped(c.header) /\ CodecAccepts(c.header.tok, now)
        /\ ~(BearerShaped(c.header) /\ CodecAccepts(c.header.tok, now)) =>
               /\ c.status \in {0, StatusUnauthorized}
               /\ ~c.handled
               /\ ~Pending(c) => (c.status = StatusUnauthorized /\ c.message \in AuthMessages)

\* a token naming role admin but signed with another key, sent to /admin, was
\* answered 401
C3_Witness ==
    /\ c.route = "/admin/dashboard"
    /\ BearerShaped(c.header) /\ c.header.tok.wf
    /\ c.header.tok.key = OtherKey /\ c.header.tok.claims.Role = "admin"
    /\ c.aborted /\ c.status = StatusUnauthorized

(***************************************************************************)
(* Properties of the auth service                                          *)
(***************************************************************************)
\* the rows of tbl the login identifier names, by username or by email
Named(tbl, identifier) ==
    {i \in DOMAIN tbl : tbl[i].Username = identifier \/ tbl[i].Email = identifier}

LoginServed == last.op = "login" /\ BindLogin(last.req)

InvalidCredentials(resp) ==
    /\ resp.err = "invalid username or password"
    /\ resp.status = StatusUnauthorized
    /\ resp.message = "Invalid username or password"
    /\ resp.token = NoToken

\* C4: a Login whose identifier names no user, and a Login whose identifier names
\* only active users none of which has the given password, get the same answer:
\* the error "invalid username or password", status 401 with the same message,
\* and no token.
C4_UnknownAndWrongPasswordAlike ==
    LoginServed =>
        LET named == Named(users, last.req.Username)
            wrong == /\ named # {}
                     /\ \A i \in named :
                            /\ users[i].IsActive
                            /\ users[i].Password # HashPassword(last.req.Password)
        IN (named = {} \/ wrong) => InvalidCredentials(last.resp)

\* an active user's identifier with a wrong password has been answered
C4_Witness ==
    /\ LoginServed
    /\ \E i \in Named(users, last.req.Username) :
           users[i].IsActive /\ users[i].Password # HashPassword(last.req.Password)
    /\ InvalidCredentials(last.resp)

\* the response a Login request gets from a store holding tbl
Outcome(tbl, req) ==
    LET r == Login(tbl, roles, cfg, req, now, "none").resp
    IN <<r.status, r.message, r.err>>

\* the table without its row i
Without(tbl, i) == [j \in 1..(Len(tbl) - 1) |-> IF j < i THEN tbl[j] ELSE tbl[j + 1]]

\* C5: for a Login whose password is not the password of any account the
\* identifier names, the answer is the same from the stores that differ only in
\* the active flag, or in the existence, of an account the identifier names.
C5_LoginOutcomeHidesAccount ==
    \A req \in LoginRequests :
        (/\ BindLogin(req)
         /\ \A i \in Named(users, req.Username) :
                users[i].Password # HashPassword(req.Password)) =>
            \A i \in Named(users, req.Username) :
                /\ Outcome(users, req) =
                       Outcome([users EXCEPT ![i].IsActive = ~@], req)
                /\ Outcome(users, req) = Outcome(Without(users, i), req)

\* C6: a Login whose identifier names only deactivated accounts holding the given
\* password fails with "user account is inactive" (401, not the invalid-credentials
\* answer, no token); and a token is only ever issued for the account Login looked
\* up, read as active, with the given password verified against its hash.
C6_InactiveRejectedBeforeToken ==
    LoginServed =>
        LET named == Named(users, last.req.Username) IN
        /\ (/\ named # {}
            /\ \A i \in named :
                   /\ ~users[i].IsActive
                   /\ users[i].Password = HashPassword(last.req.Password)) =>
               /\ last.resp.err = "user account is inactive"
               /\ last.resp.status = StatusUnauthorized
               /\ last.resp.message = "user account is inactive"
               /\ ~InvalidCredentials(last.resp)
               /\ last.resp.token = NoToken
        /\ last.resp.token # NoToken =>
               /\ last.found.IsActive
               /\ last.found.Password = HashPassword(last.req.Password)
               /\ last.resp.token.claims.UserID = last.found.ID
               /\ users[last.found.ID].IsActive
        /\ ~last.found.IsActive => last.resp.token = NoToken

\* a deactivated account's identifier with its password has been refused
C6_Witness ==
    /\ LoginServed
    /\ last.found.ID # 0 /\ ~last.found.IsActive
    /\ last.found.Password = HashPassword(last.req.Password)
    /\ last.resp.err = "user account is inactive"

\* C7: a Register of a username or of an email that a row of the users table
\* (an earlier successful Register) already holds fails with "username or email
\* already exists", answered 400, and leaves the users table as it was.
C7_RegisterDuplicateRejected ==
    [][(/\ last'.op = "register"
        /\ RegisterBoundary(last'.req).status = 0
        /\ \E i \in DOMAIN users :
               \/ users[i].Username = last'.req.Username
               \/ users[i].Email = last'.req.Email) =>
           (/\ last'.resp.err = "username or email already exists"
            /\ last'.resp.status = StatusBadRequest
            /\ users' = users)]_vars

\* a Register of a taken username with a fresh email has been rejected
C7_Witness ==
    /\ last.op = "register"
    /\ last.resp.err = "username or email already exists"
    /\ \E i \in DOMAIN users :
           users[i].Username = last.req.Username /\ users[i].Email # last.req.Email
    /\ \A i \in DOMAIN users : users[i].Email # last.req.Email

\* C10: for an active account registered with username u, email e and password
\* p, a Login with identifier u or e and password q succeeds if and only if q = p.
C10_LoginSucceedsIffPassword ==
    LoginServed =>
        \A i \in Named(users, last.req.Username) :
            users[i].IsActive =>
                (last.resp.status = StatusOK
                    <=> users[i].Password = HashPassword(last.req.Password))

(***************************************************************************)
(* Properties of concurrent registration and seeding                       *)
(***************************************************************************)
\* C8: in every reachable state of every interleaving of concurrent Register
\* calls and god-admin seeding, no two rows of the users table have the same
\* username and no two have the same email.
C8_IdentityUnique ==
    \A i, j \in DOMAIN users :
        i # j => (users[i].Username # users[j].Username
                  /\ users[i].Email # users[j].Email)

\* two rows are stored and an insert that passed its existence check was
\* refused by the store
C8_Witness ==
    /\ Len(users) >= 2
    /\ \E p \in DOMAIN procs :
           procs[p].err \in {"failed to create user: ", "error creating god admin user: "}

\* two processes ask for the same username or the same email
Overlap(r1, r2) == r1.Username = r2.Username \/ r1.Email = r2.Email

\* C9: when two Register calls for the same username and email have both been
\* answered, and no other process asked for that username or email, exactly one
\* of them was answered 201 and the other was answered 400 with "username or
\* email already exists".
C9_RaceLoserGetsDuplicate ==
    \A p, q \in DOMAIN procs \ {Seeder} :
        (/\ p # q
         /\ procs[p].pc = "done" /\ procs[q].pc = "done"
         /\ procs[p].req = procs[q].req
         /\ \A r \in DOMAIN procs \ {p, q} : ~Overlap(procs[r].req, procs[p].req)) =>
            \E w \in {p, q} :
                /\ procs[w].resp.status = StatusCreated
                /\ \A l \in {p, q} \ {w} :
                       /\ procs[l].resp.status = StatusBadRequest
                       /\ procs[l].resp.err = "username or email already exists"

(***************************************************************************)
(* Properties of issued tokens at the authentication gate                  *)
(***************************************************************************)
\* the time to live a configuration of JWT_EXPIRATION_HOURS stands for
TTL(hours) == IF hours = 0 THEN DefaultExpirationHours * HourTicks ELSE hours * HourTicks

\* the token the service issues at instant t under JWT_EXPIRATION_HOURS = hours
IssuedAt(i, hours, t) ==
    GenerateJWT(TokenUser(i), SeededRoles,
                [JWTSecret |-> JWTSecret, JWTExpirationHours |-> hours], t, "none").token

\* AuthMiddleware has run on a well-shaped header carrying tok
Presented(tok) ==
    /\ c.handlers # <<>> /\ c.handlers[1].kind = "auth" /\ Ran(c, 1)
    /\ BearerShaped(c.header) /\ c.header.tok = tok

\* AuthMiddleware let the request through to the next handler
Accepted ==
    /\ c.index >= 2 /\ c.status # StatusUnauthorized
    /\ c.keys.set = {"userID", "username", "email", "role"}

RejectedExpired ==
    /\ c.aborted /\ c.index = 1 /\ c.status = StatusUnauthorized
    /\ c.message = "Token has expired." /\ ~c.handled /\ c.keys.set = {}

C12_OtherSecretRejected ==
    (/\ c.handlers # <<>> /\ c.handlers[1].kind = "auth" /\ Ran(c, 1)
     /\ BearerShaped(c.header)
     /\ c.header.tok.wf /\ c.header.tok.alg \in HMACAlgs
     /\ c.header.tok.key # cfg.JWTSecret) =>
        /\ c.aborted /\ c.index = 1 /\ c.status = StatusUnauthorized
        /\ c.message = "Token signature is invalid or signing method is not supported."
        /\ c.keys = NoKeys /\ ~c.handled

\* an HS256 token signed under another secret was refused inside its validity window
C12_Witness ==
    /\ Ran(c, 1) /\ BearerShaped(c.header)
    /\ c.header.tok.wf /\ c.header.tok.alg = "HS256" /\ c.header.tok.key = OtherKey
    /\ c.header.tok.claims.NotBefore <= now /\ now < c.header.tok.claims.ExpiresAt
    /\ c.aborted /\ c.status = StatusUnauthorized /\ c.keys = NoKeys

(***************************************************************************)
(* Properties of a session                                                 *)
(***************************************************************************)
\* the account the token was issued for, as the users table holds it now
Account(tok) == users[tok.claims.UserID]

\* the name of the role the users table gives a row now
RoleNameOf(row) ==
    IF row.RoleID \in DOMAIN roles THEN roles[row.RoleID].Name ELSE ""

\* C13: whatever the users table holds when AuthMiddleware runs (the account of
\* the token active or deactivated, its role the one of the token or another),
\* the request is let through exactly when the token is signed under the
\* configured secret and the clock is inside its validity window, and the
\* identity keys are then the claims of the token: a token issued before the
\* deactivation or the role change is accepted with the role it was issued with.
C13_GateIgnoresStore ==
    (c.handlers # <<>> /\ c.handlers[1].kind = "auth" /\ Ran(c, 1)) =>
        LET tok == c.header.tok IN
        /\ Accepted <=> (BearerShaped(c.header) /\ CodecAccepts(tok, now))
        /\ ~Accepted => (c.aborted /\ c.status = StatusUnauthorized /\ c.keys = NoKeys)
        /\ Accepted =>
               /\ c.keys.userID = tok.claims.UserID
               /\ c.keys.username = tok.claims.Username
               /\ c.keys.email = tok.claims.Email
               /\ c.keys.role = tok.claims.Role

\* the token of an account since deactivated and given another role reached the
\* handler of a route with the role it was issued with
C13_Witness ==
    /\ c.handled /\ Accepted
    /\ ~Account(c.header.tok).IsActive
    /\ RoleNameOf(Account(c.header.tok)) # c.keys.role
    /\ c.keys.role = c.header.tok.claims.Role

(***************************************************************************)
(* Properties of the auth service over a failing store                     *)
(***************************************************************************)
\* C14: whenever Register or Login answers with an error, whichever call failed,
\* the users and roles tables are what they were before the request.
C14_ErrorLeavesStoreUnchanged ==
    [][(/\ last'.op \in {"register", "login"}
        /\ last'.resp.status \notin {StatusOK, StatusCreated}) =>
           (users' = users /\ roles' = roles)]_vars

\* C19: every Register answered 201 returns the user with the name of the role it
\* was created with ("staff" when the request has no role_id), also when the
\* Preload after the insert fails.
C19_RegisterReturnsRoleName ==
    (last.op = "register" /\ last.resp.status = StatusCreated) =>
        /\ last.resp.user.RoleName # ""
        /\ \E i \in DOMAIN roles :
               /\ roles[i].ID = last.resp.user.RoleID
               /\ roles[i].Name = last.resp.user.RoleName
        /\ last.req.RoleID = 0 => last.resp.user.RoleName = "staff"
        /\ last.req.RoleID # 0 => last.resp.user.RoleID = last.req.RoleID

\* the row a Login request resolves to when the request is valid: the account is
\* active, the password is its password and its role can be read; 0 otherwise
ValidLogin(req) ==
    LET i == FindUser(users, req.Username, req.Username)
    IN IF /\ i # 0 /\ users[i].IsActive
          /\ users[i].Password = HashPassword(req.Password)
          /\ FindRoleByID(roles, users[i].RoleID) # 0
       THEN i ELSE 0

\* C20: a valid Login whose last-login update fails is still answered 200 with a
\* token, the users table unchanged; a valid Login served without a failure leaves
\* the user's LastLogin equal to the instant of the login and nothing else changed.
C20_LastLoginBestEffort ==
    [][(last'.op = "login" /\ ValidLogin(last'.req) # 0) =>
           LET i == ValidLogin(last'.req) IN
           /\ last'.fault = "save" =>
                  /\ last'.resp.status = StatusOK /\ last'.resp.token # NoToken
                  /\ last'.resp.token.claims.UserID = i
                  /\ users' = users
           /\ last'.fault = "none" =>
                  /\ last'.resp.status = StatusOK /\ last'.resp.token # NoToken
                  /\ users' = [users EXCEPT ![i].LastLogin = now]]_vars

\* a Login was answered 200 with a token although its last-login update failed
C20_Witness ==
    /\ last.op = "login" /\ last.fault = "save"
    /\ last.resp.status = StatusOK /\ last.resp.token # NoToken
    /\ users[last.found.ID].LastLogin # now

(***************************************************************************)
(* Properties of Register                                                  *)
(***************************************************************************)
\* the step serves a Register request that passes the boundary checks and whose
\* username and email no row holds
FreshRegister ==
    /\ last'.op = "register"
    /\ RegisterBoundary(last'.req).status = 0
    /\ FindUser(users, last'.req.Username, last'.req.Email) = 0

DefaultRoleMissing == "default 'staff' role not found. Please ensure roles are seeded"

\* C15: a Register without role_id creates the user with the role named "staff"
\* when the roles table has it, and when it has none (an unseeded store) answers
\* with the error "default 'staff' role not found..." and creates no row.
C15_DefaultRoleStaffOrMissing ==
    [][(FreshRegister /\ last'.req.RoleID = 0) =>
           LET r == FindRoleByName(roles, "staff") IN
           IF r # 0
           THEN /\ last'.resp.status = StatusCreated
                /\ Len(users') = Len(users) + 1
                /\ users'[Len(users')].RoleID = roles[r].ID
                /\ last'.resp.user.RoleID = roles[r].ID
                /\ last'.resp.user.RoleName = "staff"
           ELSE /\ last'.resp.err = DefaultRoleMissing
                /\ last'.resp.status = StatusInternalServerError
                /\ last'.resp.message = DefaultRoleMissing
                /\ users' = users]_vars

\* a Register without role_id on an empty roles table was refused for the missing
\* default role
C15_Witness ==
    /\ last.op = "register" /\ last.req.RoleID = 0
    /\ last.resp.err = DefaultRoleMissing
    /\ roles = <<>> /\ users = <<>>

RoleNotFound(id) == "role with ID " \o ToString(id) \o " not found"

\* C16: a Register with a role_id no role has fails with "role with ID <id> not
\* found" and creates no row; with the id of an existing role it creates the user
\* with exactly that role.
C16_RoleSelectorResolved ==
    [][(FreshRegister /\ last'.req.RoleID # 0) =>
           IF FindRoleByID(roles, last'.req.RoleID) # 0
           THEN /\ last'.resp.status = StatusCreated
                /\ Len(users') = Len(users) + 1
                /\ users'[Len(users')].RoleID = last'.req.RoleID
                /\ last'.resp.user.RoleID = last'.req.RoleID
           ELSE /\ last'.resp.err = RoleNotFound(last'.req.RoleID)
                /\ last'.resp.status \notin {StatusOK, StatusCreated}
                /\ users' = users]_vars

\* a Register naming role 9 on a seeded store was refused
C16_Witness ==
    /\ last.op = "register" /\ last.req.RoleID = 9
    /\ last.resp.err = RoleNotFound(9)
    /\ roles = SeededRoles

\* C17: a Register naming a role id no role has is answered 400 with the
\* role-not-found message, not 500 "Failed to register user: ...".
C17_UnknownRoleIsClientError ==
    (last.op = "register" /\ last.resp.err = RoleNotFound(last.req.RoleID)) =>
        /\ last.resp.status = StatusBadRequest
        /\ last.resp.message = RoleNotFound(last.req.RoleID)

\* C18: a Register answered 201 appends exactly one row to the users table, with
\* the username and email of the request, the hash of its password, the resolved
\* role and IsActive = TRUE; every other row and the roles table are unchanged,
\* and the response carries no token.
C18_RegisterAddsOneRow ==
    [][(last'.op = "register" /\ last'.resp.status = StatusCreated) =>
           LET r == IF last'.req.RoleID = 0 THEN FindRoleByName(roles, "staff")
                    ELSE FindRoleByID(roles, last'.req.RoleID)
           IN /\ r # 0
              /\ users' = Append(users,
                    [ID |-> Len(users) + 1, Username |-> last'.req.Username,
                     Email |-> last'.req.Email,
                     Password |-> HashPassword(last'.req.Password),
                     IsActive |-> TRUE, RoleID |-> roles[r].ID, Role |-> NoRole,
                     LastLogin |-> NoTime])
              /\ roles' = roles
              /\ last'.resp.token = NoToken]_vars

\* a second user was registered beside a first one
C18_Witness ==
    /\ last.op = "register" /\ last.resp.status = StatusCreated
    /\ Len(users) = 2 /\ last.resp.user.ID = 2
    /\ last.resp.token = NoToken

(***************************************************************************)
(* Properties of the token of a login                                      *)
(***************************************************************************)
\* C21: the token of a Login answered 200 carries the id (also, in decimal, as
\* subject), username, email and role name of the user record LoginUser looked
\* up, the compact user of the response carries the same four values, and when
\* AuthMiddleware accepts that token the identity keys are exactly these values.
C21_TokenCarriesLookedUpUser ==
    (last.op = "login" /\ last.resp.status = StatusOK) =>
        LET u == last.found
            cl == last.resp.token.claims
        IN /\ u.ID \in DOMAIN users
           /\ users[u.ID].Username = u.Username /\ users[u.ID].Email = u.Email
           /\ u.Role.Name # ""
           /\ cl.UserID = u.ID /\ cl.Subject = ToString(u.ID)
           /\ cl.Username = u.Username /\ cl.Email = u.Email
           /\ cl.Role = u.Role.Name
           /\ last.resp.user.ID = u.ID /\ last.resp.user.Username = u.Username
           /\ last.resp.user.Email = u.Email
           /\ last.resp.user.RoleName = u.Role.Name
           /\ (Presented(last.resp.token) /\ Accepted) =>
                  /\ c.keys.userID = u.ID /\ c.keys.username = u.Username
                  /\ c.keys.email = u.Email /\ c.keys.role = u.Role.Name

\* the token of alice's login, role staff, was accepted on /me
C21_Witness ==
    /\ last.op = "login" /\ last.resp.status = StatusOK
    /\ Presented(last.resp.token) /\ Accepted
    /\ c.route = "/me" /\ c.handled
    /\ c.keys.username = "alice" /\ c.keys.role = "staff" /\ c.keys.userID = 1

\* C22: a Login naming an active account whose stored password is anything but
\* the bcrypt hash of the given password (the hash of another password, an empty
\* or plaintext column, a hash of an unknown version) is answered with the
\* invalid-credentials error, 401, without token, and the users table is unchanged.
C22_VerificationErrorsFailClosed ==
    [][(/\ last'.op = "login" /\ BindLogin(last'.req)
        /\ LET i == FindUser(users, last'.req.Username, last'.req.Username)
           IN /\ i # 0 /\ users[i].IsActive
              /\ users[i].Password # HashPassword(last'.req.Password)) =>
           (InvalidCredentials(last'.resp) /\ users' = users)]_vars

\* a Login with the very string a malformed password column holds was refused
C22_Witness ==
    /\ LoginServed
    /\ last.found.ID # 0 /\ last.found.IsActive
    /\ last.found.Password.alg # "bcrypt"
    /\ last.found.Password.pw = last.req.Password
    /\ InvalidCredentials(last.resp)

(***************************************************************************)
(* Properties of the conditions AuthMiddleware reports for a token         *)
(***************************************************************************)
\* why the parse of tok at instant t fails: "malformed", "algorithm" (a signing
\* method that is not an HMAC one), "signature", "notyet", "expired"; "" if it
\* does not fail
Cause(tok, t) ==
    IF ~tok.wf THEN "malformed"
    ELSE IF tok.alg \notin {"HS256", "HS384", "HS512"} THEN "algorithm"
    ELSE IF tok.key # cfg.JWTSecret THEN "signature"
    ELSE IF t < tok.claims.NotBefore THEN "notyet"
    ELSE IF t >= tok.claims.ExpiresAt THEN "expired"
    ELSE ""

\* AuthMiddleware has handled both requests and rejected their tokens
BothRejected ==
    /\ Len(procs) = 2
    /\ \A i \in 1..2 : /\ Ran(procs[i].ctx, 1)
                       /\ Cause(procs[i].ctx.header.tok, procs[i].at) # ""

CauseOf(i) == Cause(procs[i].ctx.header.tok, procs[i].at)

\* C23 as stated: two tokens rejected for different causes among malformed
\* structure, signing algorithm, signature, not yet valid and expired are never
\* reported with the same message.
C23_FiveCausesFiveConditions ==
    (BothRejected /\ CauseOf(1) # CauseOf(2)) =>
        procs[1].ctx.message # procs[2].ctx.message

\* C23, amended: two tokens rejected for different causes are reported with
\* different messages unless one is rejected for its signing algorithm and the
\* other for its signature; every rejection is a 401 that aborts the chain.
C23_CausesReportedApart ==
    BothRejected =>
        /\ \A i \in 1..2 : /\ procs[i].ctx.status = StatusUnauthorized
                           /\ procs[i].ctx.aborted
        /\ (CauseOf(1) # CauseOf(2) /\ {CauseOf(1), CauseOf(2)} # {"algorithm", "signature"})
               => procs[1].ctx.message # procs[2].ctx.message

\* an expired token and a token not yet valid were rejected with their messages
C23_Witness ==
    /\ BothRejected
    /\ CauseOf(1) = "expired" /\ CauseOf(2) = "notyet"
    /\ procs[1].ctx.message = "Token has expired."
    /\ procs[2].ctx.message = "Token not yet valid."

(***************************************************************************)
(* Properties of the Authorization header and the identity keys            *)
(***************************************************************************)
\* the request passed through a chain starting with AuthMiddleware, which has run
AuthRan == c.handlers # <<>> /\ c.handlers[1].kind = "auth" /\ Ran(c, 1)

\* AuthMiddleware answered 401 and aborted the chain with message m
Refused(m) ==
    /\ c.aborted /\ c.index = 1 /\ c.status = StatusUnauthorized /\ c.message = m
    /\ ~c.handled

\* C24: once AuthMiddleware has run, a request without Authorization header, or
\* whose header is not two space-separated parts with the first equal to
\* "bearer" in any letter case, was refused with 401 and the header's own message
\* (no message of the token parse), the chain aborted; and a header
\* "<bearer in any case> <token>" got the outcome of the token's validation:
\* passed on if the token is valid, refused with a message of the parse if not.
C24_HeaderShapeDecidedBeforeParse ==
    AuthRan =>
        /\ c.header.empty => Refused("Authorization header is required")
        /\ (~c.header.empty /\ ~BearerShaped(c.header)) =>
               Refused("Authorization header format must be Bearer {token}")
        /\ BearerShaped(c.header) =>
               IF CodecAccepts(c.header.tok, now)
               THEN c.index >= 2 /\ c.status # StatusUnauthorized
               ELSE \E m \in {"Token is malformed.", "Token has expired.",
                              "Token not yet valid.", "Invalid token: ",
                              "Token signature is invalid or signing method is not supported."} :
                        Refused(m)

\* a header of three parts carrying a valid token was refused for its format
C24_Witness ==
    /\ AuthRan
    /\ ~c.header.empty /\ c.header.parts = 3 /\ c.header.scheme = "Bearer"
    /\ CodecAccepts(c.header.tok, now)
    /\ Refused("Authorization header format must be Bearer {token}")

\* C25: before AuthMiddleware has run, and after it refused the request on any
\* path, none of the keys userID, username, email, role is set; when it passes the
\* request on, all four are set to the claims of the token, so that every later
\* handler of the chain runs with them.
C25_KeysSetExactlyOnAcceptance ==
    (c.handlers # <<>> /\ c.handlers[1].kind = "auth") =>
        /\ ~Ran(c, 1) => c.keys = NoKeys
        /\ (c.aborted /\ c.index = 1) => (c.keys = NoKeys /\ c.status = StatusUnauthorized)
        /\ c.index >= 2 =>
               /\ c.keys.set = {"userID", "username", "email", "role"}
               /\ c.keys.userID = c.header.tok.claims.UserID
               /\ c.keys.username = c.header.tok.claims.Username
               /\ c.keys.email = c.header.tok.claims.Email
               /\ c.keys.role = c.header.tok.claims.Role
               /\ CodecAccepts(c.header.tok, now)

\* RBACMiddleware is about to run with the keys of an accepted hr token
C25_Witness ==
    /\ c.route = "/hr/employee-data" /\ c.index = 2 /\ ~c.aborted /\ ~c.handled
    /\ c.header.tok.claims.Role = "hr"
    /\ c.keys.role = "hr" /\ c.keys.username = "alice" /\ c.keys.userID = 1

\* the chain of the request has ended: refused or answered by the route handler
Ended == c.aborted \/ c.handled

\* the request carries a valid token of role r and its chain has ended
ValidTokenOf(r) ==
    /\ BearerShaped(c.header) /\ CodecAccepts(c.header.tok, now)
    /\ c.header.tok.claims.Role = r /\ Ended

Allowed == c.handled /\ c.status = StatusOK /\ ~c.aborted

Forbidden == c.aborted /\ c.status = StatusForbidden /\ ~c.handled

\* C26: with the route table of SetupRoutes, a request with a valid staff token
\* ends Forbidden (403) on the /hr route and answered on the /staff-area route;
\* one with a valid hr token ends answered on the /hr, /manager and /staff-area
\* routes and Forbidden on the /admin route.
C26_RouteTableStaffAndHR ==
    /\ ValidTokenOf("staff") =>
           /\ c.route = "/hr/employee-data" => Forbidden
           /\ c.route = "/staff-area/my-tasks" => Allowed
    /\ ValidTokenOf("hr") =>
           /\ c.route \in {"/hr/employee-data", "/manager/team-overview",
                           "/staff-area/my-tasks"} => Allowed
           /\ c.route = "/admin/dashboard" => Forbidden

\* a valid staff token was refused on the HR route
C26_Witness ==
    /\ ValidTokenOf("staff") /\ c.route = "/hr/employee-data" /\ Forbidden
    /\ c.keys.role = "staff"

(***************************************************************************)
(* Properties of the request boundary of Register and Login                *)
(***************************************************************************)
\* the field is empty or consists of spaces only
Blank(s) == s \in {"", " ", "  ", "   ", "      "}

\* the request was answered 400 by the handler itself, not by the service
RejectedAtBoundary(resp) ==
    /\ resp.status = StatusBadRequest /\ resp.err = ""
    /\ resp.message \in {"Invalid request payload: ",
                         "Username, email, and password are required",
                         "Password must be at least 6 characters long"}

\* C27: a Register request whose username, email or password is empty or made of
\* spaces only, or whose password has fewer than 6 characters, is answered 400 by
\* the handler before RegisterUser is called, and the users table is unchanged.
C27_RegisterRejectsBlankAndShort ==
    [][(/\ last'.op = "register"
        /\ \/ Blank(last'.req.Username) \/ Blank(last'.req.Email)
           \/ Blank(last'.req.Password)
           \/ Len(last'.req.Password) < MinPasswordLen) =>
           (RejectedAtBoundary(last'.resp) /\ users' = users)]_vars

\* C28: a Login request whose identifier or password is empty or made of spaces
\* only, or whose password has fewer than 6 characters, is answered 400 by the
\* handler before LoginUser looks anything up.
C28_LoginRejectsBlankAndShort ==
    (/\ last.op = "login"
     /\ \/ Blank(last.req.Username) \/ Blank(last.req.Password)
        \/ Len(last.req.Password) < MinPasswordLen) =>
        (RejectedAtBoundary(last.resp) /\ last.found = NoUser)

(***************************************************************************)
(* Properties of store failures during Register and Login                  *)
(***************************************************************************)
\* the response reports an internal error wrapping the failure of the store
Surfaced(resp, prefix) ==
    /\ resp.status = StatusInternalServerError
    /\ resp.err = prefix /\ resp.token = NoToken /\ resp.user = NoView

\* C29: a Register is answered 201 only if no call of the store failed during
\* it, a Login is answered 200 only if none failed but the write of LastLogin (or
\* a role lookup it never made); and a failing existence check or login lookup
\* is answered 500 with an error wrapping the failure.
C29_OnlyLastLoginWriteSwallowed ==
    /\ (last.op = "register" /\ last.resp.status = StatusCreated) =>
           last.fault = "none"
    /\ (last.op = "login" /\ last.resp.status = StatusOK) =>
           /\ last.fault \in {"none", "save", "role"}
           /\ last.fault = "role" => last.found.Role.Name # ""
    /\ (last.op = "register" /\ last.fault = "check") =>
           Surfaced(last.resp, "database error while checking existing user: ")
    /\ (last.op = "login" /\ last.fault = "lookup") =>
           Surfaced(last.resp, "database error during login: ")

(***************************************************************************)
(* Properties of what the responses of Register and Login expose           *)
(***************************************************************************)
\* the texts a reader of the response sees: message, error, the fields of the
\* user and what the token decodes to (its algorithm and claims)
Texts(resp) ==
    {resp.message, resp.err, resp.user.Username, resp.user.Email, resp.user.RoleName,
     resp.token.alg, resp.token.claims.Username, resp.token.claims.Email,
     resp.token.claims.Role, resp.token.claims.Subject}

\* C30: every response of Register and Login, successful or failed (a failing
\* store call or hasher included), carries of the user only id, username, email,
\* active flag, role id and role name, never the Password column, carries a token
\* only when a Login succeeds, with the identity and time claims only, and none
\* of its texts is the signing secret.
C30_ResponsesHideHashAndSecret ==
    last.op \in {"register", "login"} =>
        /\ DOMAIN last.resp = {"status", "message", "err", "user", "token"}
        /\ DOMAIN last.resp.user =
               {"ID", "Username", "Email", "IsActive", "RoleID", "RoleName"}
        /\ DOMAIN last.resp.token.claims =
               {"UserID", "Username", "Email", "Role", "Subject", "ExpiresAt",
                "IssuedAt", "NotBefore"}
        /\ cfg.JWTSecret \notin Texts(last.resp)
        /\ last.resp.token # NoToken =>
               (last.op = "login" /\ last.resp.status = StatusOK)

\* a Login of an account with a stored hash was answered with user and token
C30_Witness ==
    /\ last.op = "login" /\ last.resp.status = StatusOK
    /\ last.resp.token # NoToken /\ last.resp.token.key = cfg.JWTSecret
    /\ last.resp.user.ID \in DOMAIN users
    /\ users[last.resp.user.ID].Password = HashPassword(last.req.Password)
    /\ last.resp.user.Username = "alice"

(***************************************************************************)
(* Properties of startup and seeding                                       *)
(***************************************************************************)
\* C31: a Register or Login request is served only by a server whose main has
\* finished SeedRoles and then SeedGodAdmin, in this order, with or without
\* error; and whatever the seeding logged (a role skipped, SeedGodAdmin
\* returning an error), main goes on to run the router and the server serves.
C31_SeedingBeforeServing ==
    /\ [](last.op \in {"register", "login"} => procs.pc = "serving")
    /\ [](procs.pc \in {"run", "serving"} => procs.done = <<"SeedRoles", "SeedGodAdmin">>)
    /\ [](procs.pc = "seedGodAdmin" => procs.done = <<"SeedRoles">>)
    /\ (procs.pc = "seedRoles") ~> (procs.pc = "serving")

\* a Register was served after a seeding in which SeedGodAdmin returned an error
C31_Witness ==
    /\ procs.pc = "serving" /\ procs.err # "" /\ procs.skipped
    /\ procs.done = <<"SeedRoles", "SeedGodAdmin">>
    /\ last.op = "register" /\ last.resp.status = StatusCreated

(***************************************************************************)
(* Properties of Login running concurrently with an administrator          *)
(***************************************************************************)
\* C32: the step in which a Login writes the user back changes, in the whole
\* users table, nothing but the LastLogin of that user: a deactivation or role
\* change made since the Login read the user is still in the table.
C32_LoginWritesOnlyLastLogin ==
    [][(\E p \in DOMAIN procs : procs[p].pc = "save" /\ procs'[p].pc = "done") =>
           /\ DOMAIN users' = DOMAIN users
           /\ \A i \in DOMAIN users :
                  [users'[i] EXCEPT !.LastLogin = users[i].LastLogin] = users[i]]_vars

(***************************************************************************)
(* Properties of the expiry of issued tokens                               *)
(***************************************************************************)
\* C33: the token of every Login answered 200 has an expires-at equal to its
\* issued-at plus the configured JWTExpirationHours (168 hours when configured
\* 0), strictly later than its issued-at, and presented within the second of
\* its issuance it is accepted by AuthMiddleware.
C33_ExpiryAfterIssue ==
    (last.op = "login" /\ last.resp.status = StatusOK) =>
        LET cl == last.resp.token.claims IN
        /\ cl.ExpiresAt = cl.IssuedAt + TTL(cfg.JWTExpirationHours)
        /\ cl.ExpiresAt > cl.IssuedAt
        /\ (Presented(last.resp.token) /\ NewNumericDate(now) = cl.IssuedAt) => Accepted

(***************************************************************************)
(* Properties of registration through the public endpoint                  *)
(***************************************************************************)
\* C34: a Register of a username and email not yet taken, with a role_id naming
\* a role of the roles table (admin and god-admin included), is answered 201 and
\* adds an active user with that role; every Login answered 200 returns a token
\* whose role is the name of the account's role; and that token, sent to the
\* /admin route when the role is admin or god-admin, reaches the route handler.
C34_PublicRegisterGrantsAnyRole ==
    /\ [][(/\ last'.op = "register"
           /\ FindUser(users, last'.req.Username, last'.req.Email) = 0
           /\ FindRoleByID(roles, last'.req.RoleID) # 0) =>
              /\ last'.resp.status = StatusCreated
              /\ Len(users') = Len(users) + 1
              /\ users'[Len(users')].RoleID = last'.req.RoleID
              /\ users'[Len(users')].IsActive
              /\ last'.resp.user.RoleName =
                     roles[FindRoleByID(roles, last'.req.RoleID)].Name]_vars
    /\ []((last.op = "login" /\ last.resp.status = StatusOK) =>
              /\ last.found.ID \in DOMAIN users
              /\ last.resp.token.claims.Role =
                     roles[FindRoleByID(roles, users[last.found.ID].RoleID)].Name)
    /\ []((/\ Presented(last.resp.token) /\ c.route = "/admin/dashboard"
           /\ last.resp.token.claims.Role \in {"admin", "god-admin"}
           /\ (c.aborted \/ c.handled)) =>
              (c.handled /\ c.status = StatusOK /\ ~c.aborted))

\* an account registered with the role_id of god-admin reached the /admin handler
C34_Witness ==
    /\ c.route = "/admin/dashboard" /\ c.handled /\ c.status = StatusOK
    /\ c.keys.role = "god-admin" /\ c.keys.username = "alice"
    /\ Len(users) = 1 /\ users[1].RoleID = 5
    /\ last.op = "login" /\ Presented(last.resp.token)

(***************************************************************************)
(* Properties of the seeded roles and god admin                            *)
(***************************************************************************)
\* the account SeedGodAdmin creates is in the users table, with the god-admin role
GodAdminSeeded ==
    /\ cfg.GodAdminEmail # "" /\ FindRoleByName(roles, "god-admin") # 0
    /\ \E i \in DOMAIN users :
           /\ users[i].Username = "godadmin" /\ users[i].Email = cfg.GodAdminEmail
           /\ users[i].RoleID = roles[FindRoleByName(roles, "god-admin")].ID

\* C35: when SeedGodAdmin runs on an empty users table after SeedRoles seeded the
\* five roles, with the god admin email and password configured, it returns no
\* error and leaves exactly one user, active, with the god-admin role; a Login
\* with the configured email and password is then answered 200 with a token of
\* role god-admin; and every later run of SeedGodAdmin returns no error and
\* leaves the users table as it is.
C35_GodAdminSeededOnce ==
    /\ [][(/\ procs.pc = "seedGodAdmin" /\ procs'.pc # "seedGodAdmin"
           /\ users = <<>> /\ roles = SeededRoles /\ cfg.GodAdminEmail # "") =>
              /\ procs'.err = ""
              /\ Len(users') = 1 /\ users'[1].IsActive
              /\ users'[1].Email = cfg.GodAdminEmail
              /\ users'[1].Password = HashPassword(cfg.GodAdminPassword)
              /\ roles[FindRoleByID(roles, users'[1].RoleID)].Name = "god-admin"]_vars
    /\ []((/\ last.op = "login" /\ GodAdminSeeded
           /\ last.req.Username = cfg.GodAdminEmail
           /\ last.req.Password = cfg.GodAdminPassword) =>
              /\ last.resp.status = StatusOK
              /\ last.resp.token.claims.Role = "god-admin"
              /\ last.resp.user.Username = "godadmin")
    /\ [][(/\ procs.pc = "seedGodAdmin" /\ procs'.pc # "seedGodAdmin"
           /\ GodAdminSeeded) =>
              (users' = users /\ procs'.err = "")]_vars

\* SeedGodAdmin ran again, after the god admin had logged in, and changed nothing
C35_Witness ==
    /\ procs.pc = "run" /\ procs.err = "" /\ ~procs.skipped
    /\ GodAdminSeeded /\ Len(users) = 1
    /\ users[1].LastLogin # NoTime
    /\ roles = SeededRoles

\* the names of the roles of a table
RoleNamesOf(rtbl) == {rtbl[j].Name : j \in DOMAIN rtbl}

\* no two roles of the table have the same name
UniqueNames(rtbl) ==
    \A i, j \in DOMAIN rtbl : rtbl[i].Name = rtbl[j].Name => i = j

\* C36: a run of SeedRoles, on whatever roles table it finds and however many
\* runs came before, leaves every existing role as it is, adds roles only for
\* names among staff, manager, hr, admin, god-admin that no role had, one each,
\* so that no two roles share a name or an id; a run in which no call failed
\* leaves all five names in the table, and a run on a table holding the five
\* names changes nothing.
C36_SeedRolesIdempotent ==
    [][(procs.pc = "seedRoles" /\ procs'.pc = "seedGodAdmin") =>
           /\ Len(roles') >= Len(roles)
           /\ SubSeq(roles', 1, Len(roles)) = roles
           /\ \A j \in Len(roles) + 1 .. Len(roles') :
                  /\ roles'[j].Name \in Range(RoleNames)
                  /\ roles'[j].Name \notin RoleNamesOf(roles)
           /\ UniqueNames(roles')
           /\ \A i, j \in DOMAIN roles' : roles'[i].ID = roles'[j].ID => i = j
           /\ ~procs'.skipped => Range(RoleNames) \subseteq RoleNamesOf(roles')
           /\ Range(RoleNames) \subseteq RoleNamesOf(roles) => roles' = roles]_vars

\* SeedRoles completed a table that held staff and a role of another name
C36_Witness ==
    /\ procs.pc = "seedGodAdmin" /\ ~procs.skipped
    /\ Len(roles) = 6
    /\ roles[1].Name = "staff" /\ roles[2].Name = "intern"
    /\ roles[6] = [ID |-> 6, Name |-> "god-admin"]

(***************************************************************************)
(* Properties of the role of issued tokens                                 *)
(***************************************************************************)
\* the Login verified the password of an active user it found
Verified ==
    /\ last.op = "login" /\ last.fault # "lookup"
    /\ last.found.ID # 0 /\ last.found.IsActive
    /\ ValidatePassword(last.found.Password, last.req.Password)

\* C37: the token of every Login answered 200 carries a non-empty role, the name
\* of the role the roles table holds under the user's role id; and a Login that
\* verified the password of a user whose role the table does not hold (the
\* preload leaves the name empty and the lookup by id finds nothing, or fails)
\* is answered 500 with the token-issuance error and without token.
C37_TokenRoleNeverEmpty ==
    /\ (last.op = "login" /\ last.resp.status = StatusOK) =>
           /\ last.resp.token # NoToken
           /\ last.resp.token.claims.Role # ""
           /\ FindRoleByID(roles, last.found.RoleID) # 0
           /\ last.resp.token.claims.Role =
                  roles[FindRoleByID(roles, last.found.RoleID)].Name
    /\ (Verified /\ FindRoleByID(roles, last.found.RoleID) = 0) =>
           /\ last.found.Role.Name = ""
           /\ last.resp.status = StatusInternalServerError
           /\ last.resp.token = NoToken
           /\ last.resp.err \in
                  {"failed to generate access token: could not retrieve role name for JWT generation: ",
                   "failed to generate access token: user has no RoleID or Role.Name for JWT generation"}

\* a Login with the right password of a user whose role was deleted got no token
C37_Witness ==
    /\ Verified /\ last.found.RoleID = 1 /\ FindRoleByID(roles, 1) = 0
    /\ last.fault = "none"
    /\ last.resp.status = StatusInternalServerError /\ last.resp.token = NoToken

(***************************************************************************)
(* The client's authentication state                                       *)
(***************************************************************************)
\* localStorage holds the authToken and the authUser entries
HoldsEntries(storage) == storage.authToken # null /\ storage.authUser # null

\* C38: once the initial load and every login, register and logout have
\* completed, localStorage holds the authToken and authUser entries exactly when
\* the in-memory state is authenticated, and a reload restores the
\* authentication state (authenticated or not, user, token) held before it.
C38_StorageMirrorsAuthState ==
    /\ ~procs.isLoading =>
          (HoldsEntries(procs.localStorage) <=> procs.isAuthenticated)
    /\ last.op = "restored" =>
          /\ procs.isAuthenticated = last.found.isAuthenticated
          /\ procs.user = last.found.user
          /\ procs.token = last.found.token

\* C39: a page's handleSubmit calls setSnackbarOpen(true) only when the attempt
\* succeeded (for the login page the context became authenticated, for the
\* register page the registration was accepted), and after a submission that
\* left the context unauthenticated no success notification is open.
C39_SuccessNotificationOnlyOnSuccess ==
    /\ last.op = "LoginPage.handleSubmit" /\ last.resp.opened =>
          procs.isAuthenticated
    /\ last.op = "RegisterPage.handleSubmit" /\ last.resp.opened =>
          last.req.reg.ok
    /\ last.op \in {"LoginPage.handleSubmit", "RegisterPage.handleSubmit"}
          /\ ~procs.isAuthenticated => ~procs.page.snackbarOpen

====
